---- MODULE Spec2Model ----
(***************************************************************************)
(* State-machine model of AssistantClient (src/unnamed/part_001): the      *)
(* process-wide shared transport (ACTIVE_WS / CONNECT_PROMISE), the        *)
(* per-instance socket handlers, heartbeat, reconnect timer, the gated     *)
(* audio pipeline and the session toggle.                                  *)
(*                                                                         *)
(* JavaScript runs one callback at a time: every action below is one       *)
(* run-to-completion step (a host call up to its first suspension, the     *)
(* continuation of an await, a timer callback or the dispatch of one       *)
(* socket event).  Continuations of settled promises are microtasks: no    *)
(* timer or socket event runs while one is pending.                        *)
(***************************************************************************)
EXTENDS Integers, Sequences, FiniteSets, TLC

\* ---------------------------------------------------------------- bounds
NumClients == 2
MaxSockets == 2
MaxCalls == 2
MaxSamples == 3
MaxPush == 3
ConnOps == 4
ConnFrames == 1
SessOps == 3
SessFrames == 2
PcmChunkSize == 2
TextOps == 3
TextFrames == 2
TimeStep == 50
ShareOps == 3
ShareFrames == 1
MicOps == 3
MicFrames == 1
MaxCapture == 4
MaxChunk == 2
TARGET_SAMPLES == 3
BufOps == 3
BufFrames == 2
VadOps == 2
LiveOps == 2
LiveFrames == 1
MaxVadFrames == 24

\* ------------------------------------------------------ program constants
maxMissedPongs == 2
\* The VAD thresholds, in hundredths (0.5 and 0.35), and its frame counts.
positiveSpeechThreshold == 50
negativeSpeechThreshold == 35
redemptionFrames == 20
minSpeechFrames == 3
PacingMs == 100

Clients == 1..NumClients
Sockets == 1..MaxSockets
Calls == 1..MaxCalls
GenLimit == 2 * MaxSockets + 2

VARIABLES
    cl,               \* the fields of every AssistantClient instance
    sk,               \* every WebSocket constructed so far
    ACTIVE_WS,        \* static ACTIVE_WS (0 = null)
    CONNECT_PROMISE,  \* static CONNECT_PROMISE
    calls,            \* the async calls in flight and where each is suspended
    out,              \* what the last step sent on a socket or emitted to the host
    gh,               \* history the properties refer to (never read by the code)
    ops,              \* host calls left
    frames,           \* inbound frames and server-side drops left
    now               \* the clock, in milliseconds (Date.now(), the timers)

vars == <<cl, sk, ACTIVE_WS, CONNECT_PROMISE, calls, out, gh, ops, frames, now>>

Range(f) == {f[x] : x \in DOMAIN f}

\* The state as one value, threaded through the methods of the class.
World ==
    [cl |-> cl, sk |-> sk, act |-> ACTIVE_WS, cp |-> CONNECT_PROMISE,
     calls |-> calls, out |-> <<>>, gh |-> gh, now |-> now]

Commit(W) ==
    /\ cl' = W.cl
    /\ sk' = W.sk
    /\ ACTIVE_WS' = W.act
    /\ CONNECT_PROMISE' = W.cp
    /\ calls' = W.calls
    /\ out' = W.out
    /\ gh' = W.gh
    /\ now' = W.now

\* ---------------------------------------------------------------- values
\* VADProcessor after its constructor.
NewVad ==
    [speaking |-> FALSE, speechFramesCount |-> 0, silenceFramesCount |-> 0,
     keepRunning |-> TRUE]

NewClient ==
    [made |-> FALSE, ws |-> 0, cleanedUp |-> FALSE,
     reconnectTimer |-> "null", orphanTimers |-> 0,
     heartbeatInterval |-> FALSE, missedPongs |-> 0,
     sendInterval |-> FALSE, rolling |-> <<>>, rollingPCM16 |-> <<>>,
     isRecording |-> FALSE,
     wsReady |-> FALSE, micOpen |-> FALSE, micConnecting |-> FALSE,
     amplitude |-> 0,
     isMsgSended |-> FALSE,
     bound |-> 0, handlerSocket |-> 0,
     canSendAudio |-> FALSE,
     externalAudio |-> TRUE, recNode |-> FALSE, vad |-> NewVad,
     transcription |-> <<>>, userText |-> <<>>,
     requestId |-> <<"host", 0>>, hasUUID |-> TRUE,
     wordTimers |-> <<>>]

NoSocket == [state |-> "NONE", est |-> FALSE, pendErr |-> FALSE, done |-> FALSE,
             closer |-> "none", lsn |-> <<>>, msg |-> <<>>]

IdleCall == [pc |-> "idle", inst |-> 0, kind |-> "none", sock |-> 0]

\* Slot 0 is the frame of a call that runs to completion without suspending.
CallSlots == 0..MaxCalls

NullPromise == [state |-> "null", sock |-> 0]

NewGhost ==
    [nPushed |-> [i \in Clients |-> 0],
     sentAudio |-> [i \in Clients |-> <<>>],
     unacked |-> [i \in Clients |-> 0],
     gate |-> [i \in Clients |-> FALSE],
     explicit |-> [i \in Clients |-> FALSE],
     opens |-> [i \in Clients |-> 0],
     hbStarts |-> [i \in Clients |-> 0],
     readies |-> [i \in Clients |-> 0],
     replays |-> <<>>,
     pubs |-> <<>>,
     shut |-> [i \in Clients |-> {}],
     hbFor |-> [i \in Clients |-> 0],
     stale |-> {},
     live |-> [i \in Clients |-> 0],
     nCaptured |-> [i \in Clients |-> 0],
     sentFloat |-> [i \in Clients |-> <<>>],
     lostFloat |-> [i \in Clients |-> 0],
     vadFrames |-> [i \in Clients |-> 0],
     negRun |-> [i \in Clients |-> 0],
     negSince |-> [i \in Clients |-> 0],
     posSince |-> [i \in Clients |-> 0],
     cancelled |-> [i \in Clients |-> FALSE],
     connected |-> [i \in Clients |-> FALSE],
     mark |-> [i \in Clients |-> 0]]

\* ------------------------------------------------------------ primitives
Entry(k, i, s, type, data) ==
    [k |-> k, from |-> i, s |-> s, type |-> type, data |-> data]

emit(W, i, type, detail) ==
    [W EXCEPT !.out = Append(@, Entry("emit", i, 0, type, detail))]

\* WebSocket.send: a frame goes out only on an OPEN socket; on a CLOSING or
\* CLOSED one it is discarded.
wsSend(W, i, s, type, data) ==
    IF W.sk[s].state = "OPEN"
    THEN [W EXCEPT !.out = Append(@, Entry("send", i, s, type, data))]
    ELSE [W EXCEPT !.out = Append(@, Entry("dropped", i, s, type, data))]

\* WebSocket.close(): OPEN or CONNECTING becomes CLOSING; the close event (after
\* an error event when the connection was never established) follows later.
wsClose(W, i, s, by) ==
    LET st == W.sk[s].state IN
    IF st \in {"OPEN", "CONNECTING"}
    THEN [W EXCEPT !.sk[s].state = "CLOSING",
                   !.sk[s].pendErr = (st = "CONNECTING"),
                   !.sk[s].closer = by,
                   !.out = Append(@, Entry("close", i, s, by, <<>>))]
    ELSE W

IsOpen(W, s) == s # 0 /\ W.sk[s].state = "OPEN"

\* ---------------------------------------------------------------- texts
\* A string is the sequence of its characters.
RECURSIVE trimStart(_)
trimStart(str) ==
    IF str = <<>> THEN str
    ELSE IF Head(str) = " " THEN trimStart(Tail(str)) ELSE str

RECURSIVE trimEnd(_)
trimEnd(str) ==
    IF str = <<>> THEN str
    ELSE IF str[Len(str)] = " " THEN trimEnd(SubSeq(str, 1, Len(str) - 1)) ELSE str

trim(str) == trimEnd(trimStart(str))

\* str.split(/\s+/), cur being the piece read so far: the empty string gives
\* one empty piece.
RECURSIVE splitFrom(_, _)
splitFrom(str, cur) ==
    IF str = <<>> THEN <<cur>>
    ELSE IF Head(str) = " " THEN <<cur>> \o splitFrom(trimStart(str), <<>>)
    ELSE splitFrom(Tail(str), Append(cur, Head(str)))

split(str) == splitFrom(str, <<>>)

\* --------------------------------------------------------------- frames
\* An inbound message: kind names the key of the JSON object ("nonjson": text
\* that JSON.parse rejects); a is the value of error / transcription /
\* previous_transcription, b is new_transcription; id tells one received
\* streaming_data frame from another.
Fr(kind) == [kind |-> kind, a |-> <<>>, b |-> <<>>, id |-> 0]
ErrorFrame(v) == [Fr("error") EXCEPT !.a = v]
TranscriptionFrame(v) == [Fr("transcription") EXCEPT !.a = v]
StreamingFrame(previous, next) == [Fr("streaming_data") EXCEPT !.a = previous, !.b = next]

\* JSON.parse inside try/catch: no value (<<>>) when the text does not parse.
\* A parser that takes any text as JSON.
JSONparseAny(frame) == <<frame>>

JSONparse(frame) == IF frame.kind = "nonjson" THEN <<>> ELSE <<frame>>

\* ------------------------------------------------- teardown and helpers
setAmplitude(W, i, v) ==
    emit([W EXCEPT !.cl[i].amplitude = v], i, "amplitude", <<v>>)

clearReconnect(W, i) ==
    IF W.cl[i].reconnectTimer # "null"
    THEN [W EXCEPT !.cl[i].reconnectTimer = "null"]
    ELSE W

\* stopRecording() without its last assignment: the gate stays as it was.
stopRecordingKeepGate(W, i) ==
    emit([W EXCEPT !.cl[i].sendInterval = FALSE,
                   !.cl[i].isRecording = FALSE,
                   !.cl[i].micOpen = FALSE], i, "mic-open", <<FALSE>>)

\* recNode is whether the recorder node of the last capture is connected to
\* its microphone stream (local capture only).
stopRecording(W, i) ==
    LET W0 == IF ~W.cl[i].externalAudio THEN [W EXCEPT !.cl[i].recNode = FALSE] ELSE W
        W1 == [W0 EXCEPT !.cl[i].sendInterval = FALSE,
                         !.cl[i].isRecording = FALSE,
                         !.cl[i].micOpen = FALSE]
        W2 == emit(W1, i, "mic-open", <<FALSE>>)
    IN [W2 EXCEPT !.cl[i].canSendAudio = FALSE]

\* localTeardown() that leaves the sent flag as it was.
localTeardownKeepSent(W, i) ==
    LET W1 == [W EXCEPT !.cl[i].isRecording = FALSE,
                        !.cl[i].micConnecting = FALSE]
        W2 == stopRecording(emit(W1, i, "mic-connecting", <<FALSE>>), i)
        W3 == emit([W2 EXCEPT !.cl[i].amplitude = 0], i, "amplitude", <<0>>)
    IN [W3 EXCEPT !.cl[i].sendInterval = FALSE]

localTeardown(W, i) ==
    LET W1 == [W EXCEPT !.cl[i].isMsgSended = FALSE,
                        !.cl[i].isRecording = FALSE,
                        !.cl[i].micConnecting = FALSE]
        W2 == stopRecording(emit(W1, i, "mic-connecting", <<FALSE>>), i)
        W3 == emit([W2 EXCEPT !.cl[i].amplitude = 0], i, "amplitude", <<0>>)
    IN [W3 EXCEPT !.cl[i].sendInterval = FALSE]

\* clientDisconnect() that closes the transport after its frame.
clientDisconnectClosing(W, i) ==
    LET s == W.cl[i].ws
        W1 == IF IsOpen(W, s)
              THEN wsClose(wsSend(W, i, s, "disconnect", <<>>), i, s, "disconnect")
              ELSE W
    IN localTeardown(W1, i)

clientDisconnect(W, i) ==
    LET s == W.cl[i].ws
        W1 == IF IsOpen(W, s) THEN wsSend(W, i, s, "disconnect", <<>>) ELSE W
    IN localTeardown(W1, i)

\* ------------------------------------------------------------- heartbeat
stopHeartbeat(W, i) ==
    [W EXCEPT !.cl[i].heartbeatInterval = FALSE,
              !.cl[i].missedPongs = 0]

startHeartbeat(W, i) ==
    LET W1 == stopHeartbeat(W, i) IN
    [W1 EXCEPT !.cl[i].missedPongs = 0,
               !.cl[i].heartbeatInterval = TRUE,
               !.out = Append(@, Entry("hbstart", i, 0, "hbstart", <<>>))]

\* The callback of the heartbeat interval.
heartbeatTick(W, i) ==
    LET s == W.cl[i].ws IN
    IF IsOpen(W, s)
    THEN LET W1 == wsSend(W, i, s, "heartbeat", <<>>)
             W2 == [W1 EXCEPT !.cl[i].missedPongs = @ + 1]
         IN IF W2.cl[i].missedPongs >= maxMissedPongs
            THEN wsClose(W2, i, s, "heartbeat")
            ELSE W2
    ELSE W

\* ---------------------------------------------------------------- audio
\* The drain callback without the test of the gate.
drainTickUngated(W, i) ==
    LET s == W.cl[i].ws IN
    IF ~W.cl[i].isRecording \/ ~IsOpen(W, s) THEN W
    ELSE IF Len(W.cl[i].rollingPCM16) >= PcmChunkSize
    THEN LET slice == SubSeq(W.cl[i].rollingPCM16, 1, PcmChunkSize)
             W1 == wsSend(W, i, s, "audio", slice)
         IN [W1 EXCEPT !.cl[i].rollingPCM16 =
                 SubSeq(@, PcmChunkSize + 1, Len(@))]
    ELSE W

\* floatTo16BitPCM (./audio/floatTo16BitPCM): each sample is clamped to
\* [-1, 1] and scaled to a signed 16-bit integer, by 32768 below zero and by
\* 32767 from zero up.  The float samples of the model are whole numbers.
clamp(x) == IF x < -1 THEN -1 ELSE IF x > 1 THEN 1 ELSE x
floatTo16BitPCM(chunk) ==
    [k \in DOMAIN chunk |->
        IF clamp(chunk[k]) < 0 THEN clamp(chunk[k]) * 32768 ELSE clamp(chunk[k]) * 32767]

\* A float path that takes one sample more than it sends.
sendFloatChunkLossy(W, i, s) ==
    LET chunk == SubSeq(W.cl[i].rolling, 1, TARGET_SAMPLES)
        W1 == wsSend(W, i, s, "audioFloat", floatTo16BitPCM(chunk))
    IN [W1 EXCEPT !.cl[i].rolling = SubSeq(@, TARGET_SAMPLES + 2, Len(@))]

\* The Float32 path of the drain callback and of the flush: one chunk.
sendFloatChunk(W, i, s) ==
    LET chunk == SubSeq(W.cl[i].rolling, 1, TARGET_SAMPLES)
        W1 == wsSend(W, i, s, "audioFloat", floatTo16BitPCM(chunk))
    IN [W1 EXCEPT !.cl[i].rolling = SubSeq(@, TARGET_SAMPLES + 1, Len(@))]

\* The callback of the drain interval armed by ensureSender.
drainTick(W, i) ==
    LET s == W.cl[i].ws IN
    IF ~W.cl[i].isRecording \/ ~IsOpen(W, s) THEN W
    ELSE IF ~W.cl[i].canSendAudio THEN W
    ELSE IF Len(W.cl[i].rollingPCM16) >= PcmChunkSize
    THEN LET slice == SubSeq(W.cl[i].rollingPCM16, 1, PcmChunkSize)
             W1 == wsSend(W, i, s, "audio", slice)
         IN [W1 EXCEPT !.cl[i].rollingPCM16 =
                 SubSeq(@, PcmChunkSize + 1, Len(@))]
    ELSE IF Len(W.cl[i].rolling) >= TARGET_SAMPLES
    THEN sendFloatChunk(W, i, s)
    ELSE W

ensureSender(W, i) ==
    IF W.cl[i].sendInterval THEN W
    ELSE [W EXCEPT !.cl[i].sendInterval = TRUE]

RECURSIVE flushPCM16(_, _, _)
flushPCM16(W, i, s) ==
    IF Len(W.cl[i].rollingPCM16) >= PcmChunkSize
    THEN LET slice == SubSeq(W.cl[i].rollingPCM16, 1, PcmChunkSize)
             W1 == wsSend(W, i, s, "audio", slice)
         IN flushPCM16([W1 EXCEPT !.cl[i].rollingPCM16 =
                            SubSeq(@, PcmChunkSize + 1, Len(@))], i, s)
    ELSE W

\* flushBufferedAudio() that leaves the buffers as they are.
flushBufferedAudioNone(W, i) == W

RECURSIVE flushFloat(_, _, _)
flushFloat(W, i, s) ==
    IF Len(W.cl[i].rolling) >= TARGET_SAMPLES
    THEN flushFloat(sendFloatChunk(W, i, s), i, s)
    ELSE W

flushBufferedAudio(W, i) ==
    LET s == W.cl[i].ws IN
    IF ~IsOpen(W, s) THEN W
    ELSE IF ~W.cl[i].canSendAudio THEN W
    ELSE flushFloat(flushPCM16(W, i, s), i, s)

\* The first free slot for a call that suspends (0: none).
freeSlot(W) ==
    IF \E c \in 1..MaxCalls : W.calls[c].pc = "idle"
    THEN CHOOSE c \in 1..MaxCalls :
             W.calls[c].pc = "idle" /\ \A d \in 1..(c - 1) : W.calls[d].pc # "idle"
    ELSE 0

\* startRecording(), up to its first suspension.  externalAudio: no
\* AudioContext, the caller pushes the samples.  Local capture: the call is
\* suspended until the microphone stream is there.
startRecording(W, i) ==
    IF W.cl[i].externalAudio
    THEN LET W1 == [W EXCEPT !.cl[i].isRecording = TRUE,
                             !.cl[i].sendInterval = FALSE]
         IN ensureSender(W1, i)
    ELSE [W EXCEPT !.calls[freeSlot(W)] =
             [pc |-> "micWait", inst |-> i, kind |-> "capture", sock |-> 0]]

\* startRecording(), once mediaStreamProvider() has settled: the nodes are
\* built and connected and the drain timer is armed, or the failure is caught.
\* ------------------------------------------------------ the VAD worklet
\* The samples of a frame are tenths, its energy (the sum of their squares)
\* hundredths.
RECURSIVE Energy(_)
Energy(input) ==
    IF input = <<>> THEN 0 ELSE Head(input) * Head(input) + Energy(Tail(input))

\* this.port.postMessage of the processor of instance i's vadNode.
postMessage(W, i, event, energy) ==
    [W EXCEPT !.out = Append(@, Entry("post", i, 0, event, energy))]

resetSpeechState(W, i) ==
    [W EXCEPT !.cl[i].vad.speaking = FALSE,
              !.cl[i].vad.speechFramesCount = 0,
              !.cl[i].vad.silenceFramesCount = 0]

handleSpeechDetected(W, i, energy) ==
    LET W1 == [W EXCEPT !.cl[i].vad.silenceFramesCount = 0]
    IN IF ~W1.cl[i].vad.speaking
       THEN postMessage([W1 EXCEPT !.cl[i].vad.speaking = TRUE,
                                   !.cl[i].vad.speechFramesCount = 1],
                        i, "voice_start", <<energy>>)
       ELSE postMessage([W1 EXCEPT !.cl[i].vad.speechFramesCount = @ + 1],
                        i, "voice_continue", <<energy>>)

handleSilenceDetected(W, i) ==
    IF ~W.cl[i].vad.speaking THEN W
    ELSE LET W1 == [W EXCEPT !.cl[i].vad.silenceFramesCount = @ + 1]
         IN IF W1.cl[i].vad.silenceFramesCount < redemptionFrames THEN W1
            ELSE LET W2 == IF W1.cl[i].vad.speechFramesCount >= minSpeechFrames
                           THEN postMessage(W1, i, "voice_stop", <<>>)
                           ELSE W1
                 IN resetSpeechState(W2, i)

process(W, i, input) ==
    IF ~W.cl[i].vad.keepRunning THEN W
    ELSE IF input = <<>> THEN W
    ELSE LET energy == Energy(input)
         IN IF energy > positiveSpeechThreshold THEN handleSpeechDetected(W, i, energy)
            ELSE IF energy < negativeSpeechThreshold THEN handleSilenceDetected(W, i)
            ELSE W

startRecordingTail(W, i, ok) ==
    IF ok
    THEN LET W1 == [W EXCEPT !.cl[i].recNode = TRUE,
                             !.cl[i].vad = NewVad,
                             !.cl[i].isRecording = TRUE,
                             !.cl[i].sendInterval = FALSE]
         IN ensureSender(W1, i)
    ELSE stopRecording(W, i)

\* recNode.port.onmessage: the captured chunk is appended to the float buffer.
onRecorderMessage(W, i, chunk) == [W EXCEPT !.cl[i].rolling = @ \o chunk]

\* The amplitude is kept as a level: 0 (silence) or 1 (the root mean square
\* of samples that are not all zero).
RmsLevel(view) == IF \E k \in DOMAIN view : view[k] # 0 THEN 1 ELSE 0

\* pushPCM16() that only buffers: the samples wait for the drain timer.
pushPCM16NoFlush(W, i, view) ==
    setAmplitude([W EXCEPT !.cl[i].rollingPCM16 = @ \o view], i, RmsLevel(view))

pushPCM16(W, i, view) ==
    LET W1 == [W EXCEPT !.cl[i].rollingPCM16 = @ \o view]
        W2 == setAmplitude(W1, i, RmsLevel(view))
    IN flushBufferedAudio(W2, i)

stopPrebuffering(W, i) ==
    LET W1 == [W EXCEPT !.cl[i].canSendAudio = FALSE,
                        !.cl[i].rolling = <<>>]
    IN stopRecording(W1, i)

beginPrebuffering(W, i) ==
    IF W.cl[i].isRecording THEN W
    ELSE startRecording([W EXCEPT !.cl[i].canSendAudio = FALSE], i)

\* ------------------------------------------------------ socket handlers
\* One registration of an instance's open/error/close closures on a socket:
\* gen tells the closures of one attachSocketHandlers call from those of
\* another, cap is the socket the close closure captured.
Handler(i, g, s) == [inst |-> i, gen |-> g, cap |-> s]

UsedGens(W, i) ==
    {e.gen : e \in UNION {{h \in Range(W.sk[s].lsn) : h.inst = i} : s \in Sockets}}

FreshGen(W, i) ==
    CHOOSE g \in 1..GenLimit :
        /\ g \notin UsedGens(W, i)
        /\ \A h \in 1..(g - 1) : h \in UsedGens(W, i)

Without(seq, x) == SelectSeq(seq, LAMBDA e : e # x)

detachSocketHandlers(W, i) ==
    LET s == W.cl[i].ws IN
    IF s = 0 THEN W
    ELSE IF W.cl[i].bound = 0 THEN W
    ELSE [W EXCEPT !.sk[s].lsn = SelectSeq(@, LAMBDA e :
                       ~(e.inst = i /\ e.gen = W.cl[i].bound)),
                   !.sk[s].msg = Without(@, i),
                   !.cl[i].bound = 0]

attachSocketHandlers(W, i, s) ==
    IF W.cl[i].handlerSocket = s THEN W
    ELSE
      LET W1 == IF W.cl[i].handlerSocket # 0 THEN detachSocketHandlers(W, i) ELSE W
          fresh == W1.cl[i].bound = 0
          g == IF fresh THEN FreshGen(W1, i) ELSE W1.cl[i].bound
          capOf == IF fresh THEN s
                   ELSE (CHOOSE e \in UNION {Range(W1.sk[x].lsn) : x \in Sockets} :
                             e.inst = i /\ e.gen = g).cap
          h == Handler(i, g, capOf)
      IN [W1 EXCEPT !.cl[i].bound = g,
                    !.sk[s].lsn = IF h \in Range(@) THEN @ ELSE Append(@, h),
                    !.sk[s].msg = IF i \in Range(@) THEN @ ELSE Append(@, i),
                    !.cl[i].handlerSocket = s]

boundOnOpen(W, i) ==
    emit([startHeartbeat(W, i) EXCEPT !.cl[i].wsReady = TRUE], i, "ready", <<>>)

boundOnError(W, i) == emit(W, i, "error", <<>>)

\* setTimeout overwrites the handle: a timer that was still pending stays
\* pending with no handle left to cancel it.
armReconnect(W, i) ==
    [W EXCEPT !.cl[i].orphanTimers =
                  IF W.cl[i].reconnectTimer = "live" THEN @ + 1 ELSE @,
              !.cl[i].reconnectTimer = "live"]

\* The close handler without the reconnect timer.
boundOnCloseOnce(W, i, socket) ==
    LET W1 == stopHeartbeat([W EXCEPT !.cl[i].wsReady = FALSE], i)
        W2 == IF W1.act = socket THEN [W1 EXCEPT !.act = 0] ELSE W1
    IN IF ~W2.cl[i].cleanedUp
       THEN localTeardown(detachSocketHandlers(W2, i), i)
       ELSE detachSocketHandlers(W2, i)

boundOnClose(W, i, socket) ==
    LET W1 == stopHeartbeat([W EXCEPT !.cl[i].wsReady = FALSE], i)
        W2 == IF W1.act = socket THEN [W1 EXCEPT !.act = 0] ELSE W1
    IN IF ~W2.cl[i].cleanedUp
       THEN armReconnect(localTeardown(detachSocketHandlers(W2, i), i), i)
       ELSE detachSocketHandlers(W2, i)

\* ------------------------------------------------------------ connection
\* connect() has returned to its caller: the host, the reconnect timer
\* (which swallows a rejection) or startSession (which goes on, or catches).
finishConnect(W, c, ok) ==
    LET i == W.calls[c].inst
        kind == W.calls[c].kind
        W1 == [W EXCEPT !.out = Append(@, Entry(IF ok THEN "resolved" ELSE "rejected",
                                                i, W.cl[i].ws, kind, <<>>))]
    IN IF kind = "session"
       THEN [W1 EXCEPT !.calls[c].pc = IF ok THEN "sessTail" ELSE "sessCatch"]
       ELSE [W1 EXCEPT !.calls[c] = IdleCall]

\* waitForOpen(ws) on a socket that is not OPEN: the call is suspended until
\* the socket's open event (resolve) or error event (reject).
waitForOpen(W, c, s, pcWait) ==
    [W EXCEPT !.calls[c].pc = pcWait, !.calls[c].sock = s]

markReady(W, i) ==
    emit([W EXCEPT !.cl[i].wsReady = TRUE], i, "ready", <<>>)

\* connect() without the single-flight promise: every call that finds no
\* transport to reuse opens its own.
connectJoinNoPromise(W, c, i) ==
    LET W1 == [clearReconnect(W, i) EXCEPT !.cl[i].cleanedUp = FALSE]
    IN [W1 EXCEPT !.cp = [state |-> "pending", sock |-> 0],
                  !.calls[c].pc = "createWS"]

\* connect(), from "await a single-flight connect" on.
connectJoin(W, c, i) ==
    IF W.cp.state = "pending"
    THEN [W EXCEPT !.calls[c].pc = "awaitP"]
    ELSE IF W.cp.state = "resolved"
    THEN [W EXCEPT !.calls[c].pc = "pRes", !.calls[c].sock = W.cp.sock]
    ELSE IF W.cp.state = "rejected"
    THEN [W EXCEPT !.calls[c].pc = "rej"]
    ELSE LET W1 == [clearReconnect(W, i) EXCEPT !.cl[i].cleanedUp = FALSE]
         IN [W1 EXCEPT !.cp = [state |-> "pending", sock |-> 0],
                       !.calls[c].pc = "createWS"]

\* connect(), up to its first suspension.
connect(W, c, i, kind) ==
    LET W0 == [W EXCEPT !.calls[c] = [pc |-> "run", inst |-> i, kind |-> kind, sock |-> 0]]
        a == W0.act
    IN IF a # 0
       THEN LET W1 == attachSocketHandlers([W0 EXCEPT !.cl[i].ws = a], i, a)
            IN IF W1.sk[a].state = "OPEN"
               THEN finishConnect(markReady(W1, i), c, TRUE)
               ELSE IF W1.sk[a].state = "CONNECTING"
               THEN waitForOpen(W1, c, a, "reuseWait")
               ELSE connectJoin(W1, c, i)
       ELSE connectJoin(W0, c, i)

\* The promise of the single-flight connect settles: every call awaiting it
\* becomes runnable with its outcome.
settlePromise(W, ok, s) ==
    [W EXCEPT !.cp = [state |-> IF ok THEN "resolved" ELSE "rejected", sock |-> s],
              !.calls = [c \in CallSlots |->
                  IF W.calls[c].pc = "awaitP"
                  THEN [W.calls[c] EXCEPT !.pc = IF ok THEN "pRes" ELSE "rej",
                                          !.sock = s]
                  ELSE W.calls[c]]]

disconnect(W, i) ==
    clientDisconnect(clearReconnect([W EXCEPT !.cl[i].cleanedUp = TRUE], i), i)

\* closeSocket() that forgets the transport without closing it.
closeSocketNoClose(W, i) ==
    LET s == W.cl[i].ws
        W1 == [W EXCEPT !.cl[i].cleanedUp = TRUE]
        W3 == IF W1.act = s THEN [W1 EXCEPT !.act = 0] ELSE W1
    IN [detachSocketHandlers(W3, i) EXCEPT !.cl[i].ws = 0]

\* closeSocket() that leaves the handlers on the transport.
closeSocketNoDetach(W, i) ==
    LET s == W.cl[i].ws
        W1 == [W EXCEPT !.cl[i].cleanedUp = TRUE]
        W2 == IF s # 0 THEN wsClose(W1, i, s, "closeSocket") ELSE W1
        W3 == IF W2.act = s THEN [W2 EXCEPT !.act = 0] ELSE W2
    IN [W3 EXCEPT !.cl[i].ws = 0]

closeSocket(W, i) ==
    LET s == W.cl[i].ws
        W1 == [W EXCEPT !.cl[i].cleanedUp = TRUE]
        W2 == IF s # 0 THEN wsClose(W1, i, s, "closeSocket") ELSE W1
        W3 == IF W2.act = s THEN [W2 EXCEPT !.act = 0] ELSE W2
    IN [detachSocketHandlers(W3, i) EXCEPT !.cl[i].ws = 0]

constructor(W, i) ==
    LET W1 == [W EXCEPT !.cl[i].made = TRUE] IN
    IF IsOpen(W1, W1.act)
    THEN LET W2 == attachSocketHandlers([W1 EXCEPT !.cl[i].ws = W1.act], i, W1.act)
         IN markReady(W2, i)
    ELSE W1

\* --------------------------------------------------------------- session
\* startSession(), after the connection is ensured.
rattAgentDetails == [agent |-> "agent", requestId |-> <<"host", 0>>]

\* `requestId-${(crypto.randomUUID?.() ?? Date.now()).toString()}`: a random
\* UUID (never one that was produced before) where the runtime has
\* crypto.randomUUID, the clock in milliseconds where it has not.
newReqId(W, i) ==
    IF W.cl[i].hasUUID
    THEN <<"uuid", IF W.cl[i].requestId[1] = "uuid" THEN W.cl[i].requestId[2] + 1 ELSE 1>>
    ELSE <<"ms", W.now>>

sessionTail(W, i) ==
    LET id == newReqId(W, i)
        details == [rattAgentDetails EXCEPT !.requestId = id]
        W1 == [W EXCEPT !.cl[i].isMsgSended = TRUE,
                        !.cl[i].requestId = id,
                        !.cl[i].userText = <<>>,
                        !.cl[i].transcription = <<>>]
        W2 == emit(W1, i, "transcription", <<<<>>, <<>>, 0, W.now>>)
    IN IF W2.cl[i].ws # 0 THEN wsSend(W2, i, W2.cl[i].ws, "start", <<details>>) ELSE W2

showToast(W, i, title) ==
    [W EXCEPT !.out = Append(@, Entry("callback", i, 0, "showToast", <<title>>))]

\* The catch of startSession() reporting every error as the generic one.
sessionCatchGeneric(W, i, err) ==
    LET W1 == [W EXCEPT !.cl[i].isMsgSended = FALSE]
        W2 == showToast(emit(W1, i, "error", <<err>>), i, "Error")
    IN emit([W2 EXCEPT !.cl[i].micConnecting = FALSE], i, "mic-connecting", <<FALSE>>)

\* The catch of startSession(): err is the name of what was thrown.
sessionCatch(W, i, err) ==
    LET W1 == [W EXCEPT !.cl[i].isMsgSended = FALSE]
        W2 == IF err = "NotAllowedError"
              THEN showToast(emit(W1, i, "error", <<"Microphone access is blocked">>),
                             i, "Mic Disabled")
              ELSE showToast(emit(W1, i, "error", <<err>>), i, "Error")
    IN emit([W2 EXCEPT !.cl[i].micConnecting = FALSE], i, "mic-connecting", <<FALSE>>)

\* startSession(), from the test of the transport on: c is the slot of the call.
sessionConnect(W, c, i) ==
    IF ~IsOpen(W, W.cl[i].ws)
    THEN connect(W, c, i, "session")
    ELSE sessionTail(W, i)

\* startSession(), up to its first suspension; with local capture this is the
\* request for the microphone (the worklets are loaded: connect() loads them).
startSession(W, c, i) ==
    LET s == W.cl[i].ws IN
    IF s # 0 /\ W.sk[s].state = "CONNECTING" THEN W
    ELSE IF W.cl[i].micConnecting
    THEN LET W1 == IF s # 0 THEN wsSend(W, i, s, "disconnect", <<>>) ELSE W
             W2 == [W1 EXCEPT !.cl[i].micConnecting = FALSE,
                              !.cl[i].isMsgSended = FALSE]
         IN stopRecording(emit(W2, i, "mic-connecting", <<FALSE>>), i)
    ELSE IF ~W.cl[i].micOpen
    THEN LET W1 == emit([W EXCEPT !.cl[i].micConnecting = TRUE], i,
                        "mic-connecting", <<TRUE>>)
         IN IF ~W1.cl[i].externalAudio
            THEN [W1 EXCEPT !.calls[c] =
                     [pc |-> "probe", inst |-> i, kind |-> "session", sock |-> 0]]
            ELSE sessionConnect(W1, c, i)
    ELSE disconnect(W, i)

\* The continuation of startSession() or startRecording() once
\* mediaStreamProvider() has settled: r is "ok" or the name of the error.
afterMediaStream(W, c, r) ==
    LET i == W.calls[c].inst IN
    IF W.calls[c].pc = "probe"
    THEN IF r = "ok"
         THEN IF IsOpen(W, W.cl[i].ws)
              THEN [sessionTail(W, i) EXCEPT !.calls[c] = IdleCall]
              ELSE connect(W, c, i, "session")
         ELSE [sessionCatch(W, i, r) EXCEPT !.calls[c] = IdleCall]
    ELSE [startRecordingTail(W, i, r = "ok") EXCEPT !.calls[c] = IdleCall]

stopAudio(W, i) == disconnect([W EXCEPT !.cl[i].isMsgSended = FALSE], i)

stopMic(W, i) ==
    LET W1 == stopRecording(W, i)
        s == W1.cl[i].ws
    IN IF IsOpen(W1, s) THEN wsSend(W1, i, s, "disconnect", <<>>) ELSE W1

\* -------------------------------------------------------------- messages
\* The callback handed to appendWords; rep is the appendWords call it
\* belongs to, delta is <<>> when the callback gets no second argument.
push(W, i, full, delta, rep) ==
    emit([W EXCEPT !.cl[i].transcription = full, !.cl[i].userText = full],
         i, "transcription", <<full, delta, rep, W.now>>)

\* tick() of one appendWords call: done words are published already.
tick(W, i, tm) ==
    IF tm.done >= Len(tm.words) THEN W
    ELSE LET w == tm.words[tm.done + 1]
             current == IF tm.current # <<>> THEN tm.current \o <<" ">> \o w ELSE w
             W1 == push(W, i, current, <<w>>, tm.rep)
         IN [W1 EXCEPT !.cl[i].wordTimers =
                Append(@, [tm EXCEPT !.current = current, !.done = @ + 1,
                                     !.due = W.now + PacingMs])]

\* appendWords() that arms the timer of the first word instead of calling
\* tick() at once.
appendWordsDeferred(W, i, previous, next, rep) ==
    LET W1 == push(W, i, previous, <<>>, rep) IN
    [W1 EXCEPT !.cl[i].wordTimers =
        Append(@, [rep |-> rep, current |-> previous, words |-> split(trim(next)),
                   done |-> 0, due |-> W.now + PacingMs])]

appendWords(W, i, previous, next, rep) ==
    tick(push(W, i, previous, <<>>, rep), i,
         [rep |-> rep, current |-> previous, words |-> split(trim(next)),
          done |-> 0, due |-> W.now])

\* handleSend() without the test for an empty text.
handleSendAlways(W, i) ==
    [W EXCEPT !.out = Append(@, Entry("callback", i, 0, "onSend", <<>>))]

handleSend(W, i) ==
    LET current == IF trim(W.cl[i].transcription) # <<>>
                   THEN trim(W.cl[i].transcription) ELSE trim(W.cl[i].userText)
    IN IF current = <<>> THEN W
       ELSE [W EXCEPT !.out = Append(@, Entry("callback", i, 0, "onSend", <<>>))]

\* A transcription that is taken whether or not a session was started.
onTranscriptionAlways(W, i, text) ==
    emit([W EXCEPT !.cl[i].transcription = text, !.cl[i].userText = text],
         i, "transcription", <<text, <<>>, 0, W.now>>)

\* The final transcription of a frame: taken only while the sent flag is true.
onTranscription(W, i, text) ==
    IF W.cl[i].isMsgSended
    THEN emit([W EXCEPT !.cl[i].transcription = text, !.cl[i].userText = text],
              i, "transcription", <<text, <<>>, 0, W.now>>)
    ELSE W

\* The start_audio branch that leaves mic-connecting as it was.
onStartAudioKeep(W, i) ==
    LET W1 == emit([W EXCEPT !.cl[i].canSendAudio = TRUE],
                   i, "mic-connecting", <<FALSE>>)
        W2 == emit([W1 EXCEPT !.cl[i].micOpen = TRUE], i, "mic-open", <<TRUE>>)
        W3 == IF ~W2.cl[i].isRecording /\ W2.cl[i].isMsgSended
              THEN startRecording(W2, i) ELSE W2
    IN flushBufferedAudio(W3, i)

\* handleWSMessage, the branch of a {start_audio: true} frame.
onStartAudio(W, i) ==
    LET W1 == emit([W EXCEPT !.cl[i].canSendAudio = TRUE,
                             !.cl[i].micConnecting = FALSE],
                   i, "mic-connecting", <<FALSE>>)
        W2 == emit([W1 EXCEPT !.cl[i].micOpen = TRUE], i, "mic-open", <<TRUE>>)
        W3 == IF ~W2.cl[i].isRecording /\ W2.cl[i].isMsgSended
              THEN startRecording(W2, i) ELSE W2
    IN flushBufferedAudio(W3, i)

handleWSMessage(W, i, frame) ==
    LET parsed == JSONparse(frame)
        W0 == emit(W, i, "socket-message", <<frame, parsed>>)
    IN
    IF parsed = <<>> THEN W0
    ELSE IF frame.kind = "heartbeat" THEN [W0 EXCEPT !.cl[i].missedPongs = 0]
    ELSE IF frame.kind = "error" /\ frame.a # <<>>
    THEN emit(localTeardown(W0, i), i, "error", <<frame.a>>)
    ELSE IF frame.kind = "start_audio" THEN onStartAudio(W0, i)
    ELSE IF frame.kind = "streaming_data" /\ frame.b # <<>> /\ W0.cl[i].isMsgSended
    THEN appendWords(W0, i, frame.a, frame.b, frame.id)
    ELSE IF frame.kind = "transcription" /\ frame.a # <<>>
    THEN onTranscription(W0, i, frame.a)
    ELSE IF frame.kind = "stop_audio"
    THEN stopRecording(setAmplitude(W0, i, 0), i)
    ELSE IF frame.kind = "disconnect"
    THEN handleSend(localTeardown(W0, i), i)
    ELSE W0

\* ------------------------------------------------------- event dispatch
\* The socket invokes a listener of instance i.
Invoke(W, i, s, type) == [W EXCEPT !.out = Append(@, Entry("handler", i, s, type, <<>>))]

RECURSIVE dispatchOpen(_, _, _)
dispatchOpen(W, s, snap) ==
    IF snap = <<>> THEN W
    ELSE LET e == Head(snap)
             W1 == IF e \in Range(W.sk[s].lsn)
                   THEN boundOnOpen(Invoke(W, e.inst, s, "open"), e.inst) ELSE W
         IN dispatchOpen(W1, s, Tail(snap))

RECURSIVE dispatchError(_, _, _)
dispatchError(W, s, snap) ==
    IF snap = <<>> THEN W
    ELSE LET e == Head(snap)
             W1 == IF e \in Range(W.sk[s].lsn)
                   THEN boundOnError(Invoke(W, e.inst, s, "error"), e.inst) ELSE W
         IN dispatchError(W1, s, Tail(snap))

RECURSIVE dispatchClose(_, _, _)
dispatchClose(W, s, snap) ==
    IF snap = <<>> THEN W
    ELSE LET e == Head(snap)
             W1 == IF e \in Range(W.sk[s].lsn)
                   THEN boundOnClose(Invoke(W, e.inst, s, "close"), e.inst, e.cap)
                   ELSE W
         IN dispatchClose(W1, s, Tail(snap))

RECURSIVE dispatchMessage(_, _, _, _)
dispatchMessage(W, s, snap, frame) ==
    IF snap = <<>> THEN W
    ELSE LET i == Head(snap)
             W1 == IF i \in Range(W.sk[s].msg)
                   THEN handleWSMessage(W, i, frame) ELSE W
         IN dispatchMessage(W1, s, Tail(snap), frame)

\* The calls suspended in waitForOpen(s) are resumed by the open event and
\* rejected by the error event.
wakeWaiters(W, s, ok) ==
    LET creator == \E c \in CallSlots : W.calls[c].pc = "waitOpen" /\ W.calls[c].sock = s
        W1 == IF creator /\ ~ok THEN settlePromise(W, FALSE, 0) ELSE W
    IN [W1 EXCEPT !.calls = [c \in CallSlots |->
           IF W1.calls[c].sock = s /\ W1.calls[c].pc = "waitOpen"
           THEN [W1.calls[c] EXCEPT !.pc = IF ok THEN "opened" ELSE "outerRej"]
           ELSE IF W1.calls[c].sock = s /\ W1.calls[c].pc = "reuseWait"
           THEN [W1.calls[c] EXCEPT !.pc = IF ok THEN "reuseOpened" ELSE "rej"]
           ELSE W1.calls[c]]]

\* A socket whose close event has been dispatched fires no further event.
retire(W, s) ==
    [W EXCEPT !.sk[s] = [NoSocket EXCEPT !.state = "CLOSED", !.done = TRUE,
                                         !.est = W.sk[s].est,
                                         !.closer = W.sk[s].closer]]

\* ------------------------------------------------------------- history
\* What the step recorded in out adds to the history.
\*   sentAudio  the samples each instance handed to a socket, in order
\*   unacked    heartbeat frames sent since the heartbeat started or the last
\*              acknowledgment was received
\*   gate       the gate as the protocol defines it: opened by start_audio;
\*              closed by stop_audio, stopPrebuffering and every teardown
\*   explicit   the host's last word was a teardown (disconnect, stopAudio,
\*              the toggle-off, closeSocket), not connect or startSession
\*   opens, hbStarts, readies
\*              open events delivered to the instance, and the heartbeat
\*              starts and 'ready' events they led to (in the open handler
\*              and in the connect() calls that were waiting for the open)
\*   replays    the streaming_data frames the instances handled, each with the
\*              sent flag it found and the time
\*   pubs       the transcription events published by appendWords calls, each
\*              with the frame it replays and the time
\*   hbFor      the transport whose open event armed the heartbeat timer the
\*              instance has now (0: no timer armed)
\*   live       the transport on which the session-start payload of the
\*              instance's session was sent (0: no payload sent since the
\*              sent flag was last false)
\*   stale      the startRecording() calls still waiting for the microphone
\*              whose instance has been torn down since they were made
\*   shut       the transports the instance has called closeSocket() on and
\*              whose close event is still to come
\*   nCaptured, sentFloat
\*              the number of samples the recorder has posted to the instance,
\*              and the converted samples the instance handed to a socket
\*   lostFloat  the number of captured samples stopPrebuffering() discarded
\*   mark       the number of samples that had been pushed when the instance's
\*              last session ended (its sent flag went from true to false),
\*              kept while one of them is buffered or being sent
\*   connected  a connect() call of the instance has resolved
\*   cancelled  the last startSession() call of the instance ran the cancel
\*              path while an earlier startSession() call was suspended
\*   vadFrames  the number of frames the instance's VAD processor was given
\*   negRun     the number of speech-negative frames given to the processor
\*              one after the other up to now (any other frame with samples
\*              ends the run)
\*   negSince   the number of speech-negative frames given to the processor
\*              since its last speech-positive frame
\*   posSince   the number of speech-positive frames given to the processor
\*              since the frame of its last voice_start, that frame included
GateClosers == {"stopPrebuffering", "disconnect", "stopAudio", "teardown", "toggle"}
Teardowns == {"disconnect", "stopAudio", "toggle", "closeSocket"}
Attempts == {"connect", "startSession"}
LocalTeardowns == {"disconnect", "stopAudio", "toggle", "teardown", "stopPrebuffering"}

RECURSIVE History(_, _, _)
History(g, trace, first) ==
    IF trace = <<>> THEN g
    ELSE LET e == Head(trace)
             i == e.from
             onOpen == first.k = "event" /\ first.type = "open"
             afterOpen == first.k = "resume" /\ first.type \in {"opened", "reuseOpened"}
             g1 ==
               IF e.k = "send" /\ e.type = "audio"
                 THEN [g EXCEPT !.sentAudio[i] = @ \o e.data]
               ELSE IF e.k = "send" /\ e.type = "start"
                 THEN [g EXCEPT !.live[i] = e.s]
               ELSE IF e.k = "send" /\ e.type = "audioFloat"
                 THEN [g EXCEPT !.sentFloat[i] = @ \o e.data]
               ELSE IF e.k = "send" /\ e.type = "heartbeat"
                 THEN [g EXCEPT !.unacked[i] = @ + 1]
               ELSE IF e.k = "hbstart"
                 THEN [g EXCEPT !.unacked[i] = 0,
                                !.hbStarts[i] = IF onOpen THEN @ + 1 ELSE @,
                                !.hbFor[i] = first.s]
               ELSE IF e.k = "handler" /\ e.type = "open"
                 THEN [g EXCEPT !.opens[i] = @ + 1]
               ELSE IF e.k = "emit" /\ e.type = "ready"
                 THEN [g EXCEPT !.readies[i] = IF onOpen \/ afterOpen THEN @ + 1 ELSE @]
               ELSE IF e.k = "emit" /\ e.type = "socket-message"
                 THEN IF e.data[1].kind = "heartbeat" THEN [g EXCEPT !.unacked[i] = 0]
                      ELSE IF e.data[1].kind = "start_audio" THEN [g EXCEPT !.gate[i] = TRUE]
                      ELSE IF e.data[1].kind \in {"stop_audio", "disconnect"}
                              \/ (e.data[1].kind = "error" /\ e.data[1].a # <<>>)
                        THEN [g EXCEPT !.gate[i] = FALSE]
                      ELSE IF e.data[1].kind = "streaming_data"
                        THEN [g EXCEPT !.replays = Append(@,
                                [inst |-> i, id |-> e.data[1].id,
                                 previous |-> e.data[1].a, next |-> e.data[1].b,
                                 sent |-> cl[i].isMsgSended, at |-> now,
                                 req |-> cl[i].requestId])]
                      ELSE g
               ELSE IF e.k = "emit" /\ e.type = "transcription" /\ e.data[3] # 0
                 THEN [g EXCEPT !.pubs = Append(@,
                         [inst |-> i, rep |-> e.data[3], text |-> e.data[1],
                          delta |-> e.data[2], at |-> e.data[4]])]
               ELSE IF e.k = "call"
                 THEN [g EXCEPT !.gate[i] = IF e.type \in GateClosers THEN FALSE ELSE @,
                                !.explicit[i] = IF e.type \in Teardowns THEN TRUE
                                                ELSE IF e.type \in Attempts THEN FALSE
                                                ELSE @,
                                !.cancelled[i] =
                                    IF e.type = "startSession"
                                    THEN /\ cl[i].micConnecting
                                         /\ ~(cl[i].ws # 0 /\ sk[cl[i].ws].state = "CONNECTING")
                                         /\ \E c \in Calls : /\ calls[c].inst = i
                                                             /\ calls[c].kind = "session"
                                                             /\ calls[c].pc # "idle"
                                    ELSE @,
                                !.lostFloat[i] = IF e.type = "stopPrebuffering"
                                                 THEN @ + Len(cl[i].rolling) ELSE @,
                                !.shut[i] = IF e.type = "closeSocket" /\ cl[i].ws # 0
                                               /\ ~sk[cl[i].ws].done
                                            THEN @ \cup {cl[i].ws} ELSE @]
               ELSE IF e.k = "event" /\ e.type \in {"close", "drop"}
                 THEN [g EXCEPT !.shut = [j \in Clients |-> @[j] \ {e.s}]]
               ELSE IF e.k = "resolved"
                 THEN [g EXCEPT !.connected[i] = TRUE]
               ELSE IF e.k = "frame"
                 THEN LET energy == e.data[1]
                          pos == e.type = "vad" /\ energy > positiveSpeechThreshold
                          neg == e.type = "vad" /\ energy < negativeSpeechThreshold
                      IN [g EXCEPT !.vadFrames[i] = @ + 1,
                                   !.negRun[i] = IF neg THEN @ + 1
                                                 ELSE IF e.type = "vad" THEN 0 ELSE @,
                                   !.negSince[i] = IF neg THEN @ + 1
                                                   ELSE IF pos THEN 0 ELSE @,
                                   !.posSince[i] = IF pos THEN @ + 1 ELSE @]
               ELSE IF e.k = "post" /\ e.type = "voice_start"
                 THEN [g EXCEPT !.posSince[i] = 1]
               ELSE IF e.k = "resume" /\ e.type = "micWait" /\ e.data[1] = "ok"
                 THEN [g EXCEPT !.negRun[i] = 0, !.negSince[i] = 0, !.posSince[i] = 0]
               ELSE g
             tornDown ==
                \/ e.k = "call" /\ e.type \in LocalTeardowns
                \/ e.k = "emit" /\ e.type = "socket-message"
                      /\ \/ e.data[1].kind = "disconnect"
                         \/ e.data[1].kind = "error" /\ e.data[1].a # <<>>
                \/ e.k = "handler" /\ e.type = "close" /\ ~cl[i].cleanedUp
             g2 == IF tornDown
                   THEN [g1 EXCEPT !.stale = @ \cup {c \in Calls :
                            calls[c].pc = "micWait" /\ calls[c].inst = i}]
                   ELSE g1
         IN History(g2, Tail(trace), first)

\* hbFor is kept for an armed heartbeat timer only, stale for the calls still
\* waiting, live while the sent flag is true, cancelled while a startSession()
\* call is suspended or a session is started.
Armed(g, W) ==
    [g EXCEPT !.hbFor = [i \in Clients |-> IF W.cl[i].heartbeatInterval THEN @[i] ELSE 0],
              !.stale = {c \in @ : W.calls[c].pc = "micWait"},
              !.live = [i \in Clients |-> IF W.cl[i].isMsgSended THEN @[i] ELSE 0],
              !.mark = [i \in Clients |->
                  LET m == IF cl[i].isMsgSended /\ ~W.cl[i].isMsgSended
                           THEN g.nPushed[i] ELSE @[i]
                  IN IF \/ \E k \in DOMAIN W.cl[i].rollingPCM16 :
                               W.cl[i].rollingPCM16[k] <= m
                        \/ \E e \in Range(W.out) :
                               /\ e.k = "send" /\ e.type = "audio" /\ e.from = i
                               /\ \E k \in DOMAIN e.data : e.data[k] <= m
                     THEN m ELSE 0],
              !.cancelled = [i \in Clients |->
                  /\ @[i]
                  /\ \/ W.cl[i].isMsgSended
                     \/ W.cl[i].micConnecting
                     \/ \E c \in Calls : /\ W.calls[c].inst = i
                                         /\ W.calls[c].kind = "session"
                                         /\ W.calls[c].pc # "idle"]]

Step(W) ==
    \E w \in {W} :
        \E g \in {Armed(History(w.gh, w.out, w.out[1]), w)} :
            Commit([w EXCEPT !.gh = g])

Begin(k, i, s, type) == [World EXCEPT !.out = <<Entry(k, i, s, type, <<>>)>>]

ReadyPcs == {"opened", "outer", "outerRej", "reuseOpened", "rej", "pRes",
             "sessTail", "sessCatch"}

\* No continuation of a settled promise is waiting to run.
NoMicrotask == \A c \in CallSlots : calls[c].pc \notin ReadyPcs

\* The error event of a failed connection has been dispatched and its close
\* event follows in the same task: only continuations of settled promises
\* (and host code they run) can come between the two.
CloseOwed(s) == sk[s].state = "CLOSED" /\ ~sk[s].done

\* A new task can start: a timer callback, a socket event, an inbound frame.
TaskBoundary == NoMicrotask /\ \A s \in Sockets : ~CloseOwed(s)

FreeSlot ==
    IF \E c \in Calls : calls[c].pc = "idle"
    THEN CHOOSE c \in Calls : calls[c].pc = "idle" /\ \A d \in 1..(c - 1) : calls[d].pc # "idle"
    ELSE 0

\* A host call that would suspend needs a free call slot.
HostStep(W) ==
    /\ ops > 0
    /\ W.calls[0] = IdleCall
    /\ ops' = ops - 1
    /\ frames' = frames
    /\ Step(W)

\* A step that would suspend a call needs a free call slot.
EnvStep(W) ==
    /\ W.calls[0] = IdleCall
    /\ UNCHANGED <<ops, frames>>
    /\ Step(W)

\* A push is bounded by the number of samples, not by the host calls left.
PushStep(W) ==
    /\ W.calls[0] = IdleCall
    /\ UNCHANGED <<ops, frames>>
    /\ Step(W)

\* The k-th captured sample: the values go round -2, -1, 0, 1, 2, so that
\* samples out of the range [-1, 1] occur.
FloatSample(k) == ((k + 2) % 5) - 2

\* ----------------------------------------------------------- host calls
Construct(i) ==
    /\ ~cl[i].made
    /\ HostStep(constructor(Begin("call", i, 0, "constructor"), i))

Connect(i) ==
    /\ cl[i].made
    /\ HostStep(connect(Begin("call", i, 0, "connect"), FreeSlot, i, "host"))

Disconnect(i) ==
    /\ cl[i].made
    /\ HostStep(disconnect(Begin("call", i, 0, "disconnect"), i))

CloseSocket(i) ==
    /\ cl[i].made
    /\ HostStep(closeSocket(Begin("call", i, 0, "closeSocket"), i))

\* The call is a toggle-off (a teardown) when it reaches disconnect().
TogglesOff(i) ==
    /\ ~(cl[i].ws # 0 /\ sk[cl[i].ws].state = "CONNECTING")
    /\ ~cl[i].micConnecting
    /\ cl[i].micOpen

StartSession(i) ==
    /\ cl[i].made
    /\ HostStep(startSession(
           Begin("call", i, 0, IF TogglesOff(i) THEN "toggle" ELSE "startSession"),
           FreeSlot, i))

StopAudio(i) ==
    /\ cl[i].made
    /\ HostStep(stopAudio(Begin("call", i, 0, "stopAudio"), i))

Teardown(i) ==
    /\ cl[i].made
    /\ HostStep(localTeardown(Begin("call", i, 0, "teardown"), i))

BeginPrebuffering(i) ==
    /\ cl[i].made
    /\ HostStep(beginPrebuffering(Begin("call", i, 0, "beginPrebuffering"), i))

StopPrebuffering(i) ==
    /\ cl[i].made
    /\ HostStep(stopPrebuffering(Begin("call", i, 0, "stopPrebuffering"), i))

StartMic(i) ==
    /\ cl[i].made
    /\ HostStep(startRecording(Begin("call", i, 0, "startMic"), i))

StopMic(i) ==
    /\ cl[i].made
    /\ HostStep(stopMic(Begin("call", i, 0, "stopMic"), i))

\* The samples pushed are numbered in the order of their pushes.  The host
\* pushes from the callback of its audio source, a task of its own.
PushPCM16(i, n) ==
    /\ cl[i].made
    /\ gh.nPushed[i] + n <= MaxSamples
    /\ TaskBoundary
    /\ LET view == [k \in 1..n |-> gh.nPushed[i] + k]
           W == pushPCM16(Begin("call", i, 0, "pushPCM16"), i, view)
       IN PushStep([W EXCEPT !.gh.nPushed[i] = @ + n])

\* -------------------------------------------------------- continuations
\* createWS(url) has produced the socket.
CreateWSDone(c) ==
    /\ calls[c].pc = "createWS"
    /\ TaskBoundary
    /\ \E s \in Sockets :
        /\ sk[s].state = "NONE"
        /\ \A x \in 1..(s - 1) : sk[x].state # "NONE"
        /\ LET i == calls[c].inst
               W0 == Begin("resume", i, s, "createWS")
               W1 == [W0 EXCEPT !.sk[s].state = "CONNECTING", !.act = s, !.cl[i].ws = s]
               W2 == attachSocketHandlers(W1, i, s)
           IN EnvStep(waitForOpen(W2, c, s, "waitOpen"))

Resume(c) ==
    LET pc == calls[c].pc
        i == calls[c].inst
        s == calls[c].sock
        W0 == Begin("resume", i, s, pc)
    IN
    /\ pc \in ReadyPcs
    /\ EnvStep(
         CASE pc = "opened" ->
                [settlePromise(markReady(W0, i), TRUE, s) EXCEPT !.calls[c].pc = "outer"]
           [] pc = "outer" ->
                finishConnect([W0 EXCEPT !.cl[i].ws = s, !.cp = NullPromise], c, TRUE)
           [] pc = "outerRej" ->
                finishConnect([W0 EXCEPT !.cp = NullPromise], c, FALSE)
           [] pc = "reuseOpened" ->
                finishConnect(markReady(W0, i), c, TRUE)
           [] pc = "rej" ->
                finishConnect(W0, c, FALSE)
           [] pc = "pRes" ->
                LET W1 == attachSocketHandlers([W0 EXCEPT !.cl[i].ws = s], i, s)
                IN IF W1.sk[s].state # "OPEN"
                   THEN waitForOpen(W1, c, s, "reuseWait")
                   ELSE finishConnect(markReady(W1, i), c, TRUE)
           [] pc = "sessTail" ->
                [sessionTail(W0, i) EXCEPT !.calls[c] = IdleCall]
           [] pc = "sessCatch" ->
                [sessionCatch(W0, i, "Error") EXCEPT !.calls[c] = IdleCall])

\* mediaStreamProvider() settles and the call that awaited it goes on.
MediaStream(c, r) ==
    /\ calls[c].pc \in {"probe", "micWait"}
    /\ TaskBoundary
    /\ LET W0 == [World EXCEPT !.out =
                     <<Entry("resume", calls[c].inst, 0, calls[c].pc, <<r, c>>)>>]
       IN EnvStep(afterMediaStream(W0, c, r))

\* The recorder worklet posts a chunk of captured samples, numbered in the
\* order of their capture.
RecorderMessage(i, n) ==
    /\ cl[i].recNode
    /\ TaskBoundary
    /\ gh.nCaptured[i] + n <= MaxCapture
    /\ LET chunk == [k \in 1..n |-> FloatSample(gh.nCaptured[i] + k)]
           W == onRecorderMessage(Begin("capture", i, 0, "recorder"), i, chunk)
       IN EnvStep([W EXCEPT !.gh.nCaptured[i] = @ + n])

\* The audio thread hands the VAD processor of the instance's capture graph
\* one frame.
VadInputs == {<<>>, <<5>>, <<6>>, <<5, 5>>, <<5, 6>>}

VadProcess(i, input) ==
    /\ cl[i].recNode
    /\ gh.vadFrames[i] < MaxVadFrames
    /\ LET W0 == [World EXCEPT !.out =
                     <<Entry("frame", i, 0, IF input = <<>> THEN "none" ELSE "vad",
                             <<Energy(input)>>)>>]
       IN EnvStep(process(W0, i, input))

\* --------------------------------------------------------------- timers
HeartbeatTick(i) ==
    /\ cl[i].heartbeatInterval
    /\ TaskBoundary
    /\ EnvStep(heartbeatTick(Begin("timer", i, 0, "heartbeat"), i))

DrainTick(i) ==
    /\ cl[i].sendInterval
    /\ TaskBoundary
    /\ EnvStep(drainTick(Begin("timer", i, 0, "drain"), i))

\* A pending reconnect timer fires: this.connect().catch(() => {}).
ReconnectFire(i) ==
    /\ TaskBoundary
    /\ \E live \in BOOLEAN :
        /\ IF live THEN cl[i].reconnectTimer = "live" ELSE cl[i].orphanTimers > 0
        /\ LET W0 == Begin("timer", i, 0, "reconnect")
               W1 == IF live THEN [W0 EXCEPT !.cl[i].reconnectTimer = "dead"]
                     ELSE [W0 EXCEPT !.cl[i].orphanTimers = @ - 1]
               W2 == connect(W1, FreeSlot, i, "reconnect")
           IN /\ W2.calls[0] = IdleCall
              /\ EnvStep(W2)

\* A timer armed by tick() fires: the timers run in the order of their due
\* times, and in the order of their creation when these are equal.
WordTick(i) ==
    /\ TaskBoundary
    /\ \E k \in DOMAIN cl[i].wordTimers :
        LET timers == cl[i].wordTimers
            tm == timers[k]
        IN /\ tm.due <= now
           /\ \A j \in DOMAIN timers :
                  j # k => \/ timers[j].due > tm.due
                           \/ timers[j].due = tm.due /\ j > k
           /\ LET W0 == Begin("timer", i, 0, "words")
                  W1 == [W0 EXCEPT !.cl[i].wordTimers =
                            SubSeq(timers, 1, k - 1) \o SubSeq(timers, k + 1, Len(timers))]
              IN EnvStep(tick(W1, i, tm))

\* Time passes while a timer of tick() is pending and none is due.
Advance ==
    /\ TaskBoundary
    /\ \E i \in Clients : cl[i].wordTimers # <<>>
    /\ \A i \in Clients : \A k \in DOMAIN cl[i].wordTimers : cl[i].wordTimers[k].due > now
    /\ EnvStep([Begin("clock", 0, 0, "advance") EXCEPT !.now = @ + TimeStep])

\* -------------------------------------------------------- socket events
SockOpen(s) ==
    /\ sk[s].state = "CONNECTING"
    /\ TaskBoundary
    /\ LET W0 == Begin("event", 0, s, "open")
           W1 == [W0 EXCEPT !.sk[s].state = "OPEN", !.sk[s].est = TRUE]
       IN EnvStep(wakeWaiters(dispatchOpen(W1, s, W1.sk[s].lsn), s, TRUE))

\* The connection attempt fails: error event, then close event.
SockFail(s) ==
    /\ sk[s].state = "CONNECTING"
    /\ TaskBoundary
    /\ LET W0 == Begin("event", 0, s, "error")
           W1 == [W0 EXCEPT !.sk[s].state = "CLOSED"]
       IN EnvStep(wakeWaiters(dispatchError(W1, s, W1.sk[s].lsn), s, FALSE))

\* close() was called before the connection was established.
SockError(s) ==
    /\ sk[s].state = "CLOSING"
    /\ sk[s].pendErr
    /\ TaskBoundary
    /\ LET W0 == Begin("event", 0, s, "error")
           W1 == [W0 EXCEPT !.sk[s].pendErr = FALSE, !.sk[s].state = "CLOSED"]
       IN EnvStep(wakeWaiters(dispatchError(W1, s, W1.sk[s].lsn), s, FALSE))

\* The close event of a socket that was closed locally or failed to connect;
\* after an error event it may come before or after the continuations the
\* error made runnable (the listeners are called in turn by the browser, in
\* one go by the Node socket).
SockClose(s) ==
    /\ \/ sk[s].state = "CLOSING" /\ ~sk[s].pendErr /\ TaskBoundary
       \/ CloseOwed(s)
    /\ LET W0 == Begin("event", 0, s, "close")
           W1 == [W0 EXCEPT !.sk[s].state = "CLOSED"]
       IN EnvStep(retire(dispatchClose(W1, s, W1.sk[s].lsn), s))

\* The server (or the network) drops an established connection.
SockDrop(s) ==
    /\ sk[s].state = "OPEN"
    /\ TaskBoundary
    /\ LET W0 == Begin("event", 0, s, "drop")
           W1 == [W0 EXCEPT !.sk[s].state = "CLOSED"]
       IN EnvStep(retire(dispatchClose(W1, s, W1.sk[s].lsn), s))

Frames == {Fr("heartbeat"), ErrorFrame(<<"e">>), Fr("start_audio"), Fr("stop_audio"),
           Fr("disconnect"), Fr("nonjson")}

RecvFrame(s, f) ==
    /\ sk[s].est
    /\ sk[s].state \in {"OPEN", "CLOSING"}
    /\ TaskBoundary
    /\ frames > 0
    /\ frames' = frames - 1
    /\ ops' = ops
    /\ LET frame == IF f.kind = "streaming_data" THEN [f EXCEPT !.id = frames] ELSE f
           W0 == [World EXCEPT !.out = <<Entry("event", 0, s, f.kind, <<frame>>)>>]
           W1 == dispatchMessage(W0, s, sk[s].msg, frame)
       IN W1.calls[0] = IdleCall /\ Step(W1)

\* ------------------------------------------------------- specification
\* The connection life cycle of two instances sharing the transport, from the
\* start of the process: no transport, the first instance constructed.
InitConn ==
    /\ cl = [i \in Clients |-> [NewClient EXCEPT !.made = (i = 1)]]
    /\ sk = [s \in Sockets |-> NoSocket]
    /\ ACTIVE_WS = 0
    /\ CONNECT_PROMISE = NullPromise
    /\ calls = [c \in CallSlots |-> IdleCall]
    /\ out = <<>>
    /\ gh = NewGhost
    /\ ops = ConnOps
    /\ frames = ConnFrames
    /\ now = 0

NextConn ==
    \/ \E i \in Clients : Construct(i)
    \/ \E i \in Clients : Connect(i)
    \/ \E i \in Clients : Disconnect(i)
    \/ \E i \in Clients : CloseSocket(i)
    \/ \E c \in Calls : CreateWSDone(c)
    \/ \E c \in Calls : Resume(c)
    \/ \E i \in Clients : HeartbeatTick(i)
    \/ \E i \in Clients : ReconnectFire(i)
    \/ \E s \in Sockets : SockOpen(s)
    \/ \E s \in Sockets : SockFail(s)
    \/ \E s \in Sockets : SockError(s)
    \/ \E s \in Sockets : SockClose(s)
    \/ \E s \in Sockets : SockDrop(s)
    \/ \E s \in Sockets : RecvFrame(s, Fr("heartbeat"))

SpecConn == InitConn /\ [][NextConn]_vars

\* One instance with its sessions and its audio, from the state in which its
\* first connect() has resolved (a state SpecConn reaches: Connected).  The
\* heartbeat timer is SpecConn's subject and does not tick here.
ConnectedClient ==
    [NewClient EXCEPT !.made = TRUE, !.ws = 1, !.wsReady = TRUE,
                      !.heartbeatInterval = TRUE, !.bound = 1,
                      !.handlerSocket = 1]

ConnectedTransport ==
    /\ sk = [s \in Sockets |->
               IF s = 1
               THEN [NoSocket EXCEPT !.state = "OPEN", !.est = TRUE,
                                     !.lsn = <<Handler(1, 1, 1)>>, !.msg = <<1>>]
               ELSE NoSocket]
    /\ ACTIVE_WS = 1
    /\ CONNECT_PROMISE = NullPromise
    /\ calls = [c \in CallSlots |-> IdleCall]
    /\ gh = [NewGhost EXCEPT !.opens[1] = 1, !.hbStarts[1] = 1, !.readies[1] = 2,
                             !.hbFor[1] = 1, !.connected[1] = TRUE]

Connected ==
    /\ cl = [i \in Clients |-> IF i = 1 THEN ConnectedClient ELSE NewClient]
    /\ ConnectedTransport

InitSess ==
    /\ Connected
    /\ out = <<>>
    /\ ops = SessOps
    /\ frames = SessFrames
    /\ now = 0

NextSess ==
    \/ Connect(1)
    \/ Disconnect(1)
    \/ CloseSocket(1)
    \/ StartSession(1)
    \/ StopAudio(1)
    \/ Teardown(1)
    \/ BeginPrebuffering(1)
    \/ StopPrebuffering(1)
    \/ StartMic(1)
    \/ StopMic(1)
    \/ \E n \in 1..MaxPush : PushPCM16(1, n)
    \/ \E c \in Calls : CreateWSDone(c)
    \/ \E c \in Calls : Resume(c)
    \/ DrainTick(1)
    \/ ReconnectFire(1)
    \/ \E s \in Sockets : SockOpen(s)
    \/ \E s \in Sockets : SockFail(s)
    \/ \E s \in Sockets : SockError(s)
    \/ \E s \in Sockets : SockClose(s)
    \/ \E s \in Sockets : SockDrop(s)
    \/ \E s \in Sockets, f \in Frames : RecvFrame(s, f)

SpecSess == InitSess /\ [][NextSess]_vars

\* The texts of one instance: sessions, transcription frames, the word-by-word
\* replay of streaming_data frames and its timers, from the state in which the
\* first connect() has resolved, in a runtime with or without
\* crypto.randomUUID.
Texts == {<<>>, <<"t">>, <<" ">>}
Previous == {<<>>, <<"p">>}
New == {<<>>, <<" ">>, <<" ", "a", " ", " ", "b">>}

TextFrameSet ==
    Frames \cup {ErrorFrame(<<>>)}
           \cup {TranscriptionFrame(v) : v \in Texts}
           \cup {StreamingFrame(previous, next) : previous \in Previous, next \in New}

InitText ==
    /\ \E u \in BOOLEAN :
           cl = [i \in Clients |->
                   IF i = 1 THEN [ConnectedClient EXCEPT !.hasUUID = u] ELSE NewClient]
    /\ ConnectedTransport
    /\ out = <<>>
    /\ ops = TextOps
    /\ frames = TextFrames
    /\ now = 0

NextText ==
    \/ StartSession(1)
    \/ Disconnect(1)
    \/ CloseSocket(1)
    \/ \E c \in Calls : CreateWSDone(c)
    \/ \E c \in Calls : Resume(c)
    \/ WordTick(1)
    \/ Advance
    \/ \E s \in Sockets : SockOpen(s)
    \/ \E s \in Sockets : SockFail(s)
    \/ \E s \in Sockets : SockClose(s)
    \/ \E s \in Sockets, f \in TextFrameSet : RecvFrame(s, f)

SpecText == InitText /\ [][NextText]_vars

\* One instance that captures the microphone itself (externalAudio false), from
\* the state in which its first connect() has resolved and loaded the
\* worklets: the request for the microphone in startSession() and in
\* startRecording(), the recorder's chunks and the float buffer.
MediaResults == {"ok", "NotAllowedError", "Error"}
MicFrameSet == {Fr("start_audio"), Fr("stop_audio"), ErrorFrame(<<"e">>), Fr("disconnect")}

InitMic ==
    /\ cl = [i \in Clients |->
               IF i = 1 THEN [ConnectedClient EXCEPT !.externalAudio = FALSE]
               ELSE NewClient]
    /\ ConnectedTransport
    /\ out = <<>>
    /\ ops = MicOps
    /\ frames = MicFrames
    /\ now = 0

NextMic ==
    \/ StartSession(1)
    \/ Disconnect(1)
    \/ Teardown(1)
    \/ CloseSocket(1)
    \/ BeginPrebuffering(1)
    \/ StopPrebuffering(1)
    \/ StartMic(1)
    \/ \E c \in Calls, r \in MediaResults : MediaStream(c, r)
    \/ \E n \in 1..MaxChunk : RecorderMessage(1, n)
    \/ DrainTick(1)
    \/ \E c \in Calls : CreateWSDone(c)
    \/ \E c \in Calls : Resume(c)
    \/ \E s \in Sockets : SockOpen(s)
    \/ \E s \in Sockets : SockFail(s)
    \/ \E s \in Sockets : SockError(s)
    \/ \E s \in Sockets : SockClose(s)
    \/ \E s \in Sockets : SockDrop(s)
    \/ \E s \in Sockets, f \in MicFrameSet : RecvFrame(s, f)

SpecMic == InitMic /\ [][NextMic]_vars

\* The two audio buffers of one instance that captures the microphone itself
\* while the host also pushes PCM16: pushes, captured chunks, drain ticks,
\* flushes and every change of the gate, on a transport that stays OPEN.
BufFrameSet == {Fr("start_audio"), Fr("stop_audio")}

InitBuf ==
    /\ cl = [i \in Clients |->
               IF i = 1 THEN [ConnectedClient EXCEPT !.externalAudio = FALSE]
               ELSE NewClient]
    /\ ConnectedTransport
    /\ out = <<>>
    /\ ops = BufOps
    /\ frames = BufFrames
    /\ now = 0

NextBuf ==
    \/ StartSession(1)
    \/ Disconnect(1)
    \/ BeginPrebuffering(1)
    \/ StopPrebuffering(1)
    \/ \E c \in Calls, r \in MediaResults : MediaStream(c, r)
    \/ \E n \in 1..MaxChunk : RecorderMessage(1, n)
    \/ \E n \in 1..MaxPush : PushPCM16(1, n)
    \/ DrainTick(1)
    \/ \E s \in Sockets, f \in BufFrameSet : RecvFrame(s, f)

SpecBuf == InitBuf /\ [][NextBuf]_vars

\* The VAD processor of one instance that captures the microphone itself:
\* capture started and stopped, and the frames of the audio thread.
InitVad ==
    /\ cl = [i \in Clients |->
               IF i = 1 THEN [ConnectedClient EXCEPT !.externalAudio = FALSE]
               ELSE NewClient]
    /\ ConnectedTransport
    /\ out = <<>>
    /\ ops = VadOps
    /\ frames = 0
    /\ now = 0

NextVad ==
    \/ BeginPrebuffering(1)
    \/ StopPrebuffering(1)
    \/ \E c \in Calls : MediaStream(c, "ok")
    \/ \E input \in VadInputs : VadProcess(1, input)

SpecVad == InitVad /\ [][NextVad]_vars

\* Two instances on the shared transport, from the state in which the first
\* has connected and the second was constructed and adopted the OPEN transport
\* (a state SpecConn reaches): their sessions.
InitShare ==
    /\ cl = [i \in Clients |->
               IF i = 1 THEN ConnectedClient
               ELSE [ConnectedClient EXCEPT !.heartbeatInterval = FALSE]]
    /\ sk = [s \in Sockets |->
               IF s = 1
               THEN [NoSocket EXCEPT !.state = "OPEN", !.est = TRUE,
                                     !.lsn = <<Handler(1, 1, 1), Handler(2, 1, 1)>>,
                                     !.msg = <<1, 2>>]
               ELSE NoSocket]
    /\ ACTIVE_WS = 1
    /\ CONNECT_PROMISE = NullPromise
    /\ calls = [c \in CallSlots |-> IdleCall]
    /\ gh = [NewGhost EXCEPT !.opens[1] = 1, !.hbStarts[1] = 1, !.readies[1] = 2,
                             !.hbFor[1] = 1, !.connected[1] = TRUE]
    /\ out = <<>>
    /\ ops = ShareOps
    /\ frames = ShareFrames
    /\ now = 0

NextShare ==
    \/ \E i \in Clients : StartSession(i)
    \/ \E i \in Clients : Disconnect(i)
    \/ \E i \in Clients : StopAudio(i)
    \/ \E c \in Calls : CreateWSDone(c)
    \/ \E c \in Calls : Resume(c)
    \/ \E s \in Sockets : SockOpen(s)
    \/ \E s \in Sockets : SockFail(s)
    \/ \E s \in Sockets : SockClose(s)
    \/ \E s \in Sockets : SockDrop(s)
    \/ \E s \in Sockets, f \in Frames : RecvFrame(s, f)

SpecShare == InitShare /\ [][NextShare]_vars

\* ======================================================================
\* Properties
\* ======================================================================
Created == {s \in Sockets : sk[s].state # "NONE"}
Live == {s \in Sockets : sk[s].state \in {"CONNECTING", "OPEN"}}
First == IF out = <<>> THEN Entry("none", 0, 0, "none", <<>>) ELSE out[1]
Trace == Range(out)
RECURSIVE AudioOf(_, _)
AudioOf(trace, i) ==
    IF trace = <<>> THEN <<>>
    ELSE IF Head(trace).k \in {"send", "dropped"} /\ Head(trace).type = "audio"
            /\ Head(trace).from = i
         THEN <<Head(trace).data>> \o AudioOf(Tail(trace), i)
         ELSE AudioOf(Tail(trace), i)
Handled(i, type) ==
    \E e \in Trace : e.k = "emit" /\ e.from = i /\ e.type = "socket-message"
                     /\ e.data[1].kind = type

\* C1: as long as no transport has failed or been closed, concurrent connect()
\* calls construct one transport only, and a connect() that resolves leaves
\* its instance holding that transport, which is OPEN.
C1_SingleFlight ==
    (Created = Live) =>
        /\ Cardinality(Created) <= 1
        /\ \A e \in Trace : e.k = "resolved" =>
               /\ Created = {e.s}
               /\ sk[e.s].state = "OPEN"
               /\ cl[e.from].ws = e.s

\* Two instances called connect() concurrently: the second call was suspended
\* on the first one's attempt and has now resolved on the same OPEN socket.
C1_Witness ==
    /\ Created = Live
    /\ First.k = "resume" /\ First.type \in {"pRes", "reuseOpened"}
    /\ \E e \in Trace : e.k = "resolved" /\ e.from = 2
    /\ cl[1].ws = 1 /\ cl[2].ws = 1 /\ sk[1].state = "OPEN"
    /\ cl[1].wsReady /\ cl[2].wsReady

\* C2: at most one transport is OPEN or CONNECTING at any time; a transport is
\* constructed only in a step that found the shared handle empty or pointing
\* to a CLOSING or CLOSED transport; and connect() (or the constructor) called
\* while the shared transport is OPEN or CONNECTING constructs nothing, the
\* caller holding the shared transport afterwards (the constructor adopts an
\* OPEN one only).
Constructs == \E s \in Sockets : sk[s].state = "NONE" /\ sk'[s].state # "NONE"
SharedLive == ACTIVE_WS # 0 /\ sk[ACTIVE_WS].state \in {"OPEN", "CONNECTING"}
C2_Step ==
    /\ Constructs => ~SharedLive
    /\ (SharedLive /\ out' # <<>> /\ out'[1].type \in {"connect", "reconnect", "constructor"}
           /\ out'[1].k \in {"call", "timer"}) =>
          /\ ~Constructs
          /\ ACTIVE_WS' = ACTIVE_WS
          /\ (out'[1].type # "constructor" \/ sk[ACTIVE_WS].state = "OPEN") =>
                 cl'[out'[1].from].ws = ACTIVE_WS
C2_AtMostOneLive == [](Cardinality(Live) <= 1) /\ [][C2_Step]_vars

\* A second transport was constructed once the first one was closed, and both
\* instances hold it: one opened it, the other adopted it.
C2_Witness ==
    /\ sk[1].state = "CLOSED"
    /\ sk[2].state \in {"OPEN", "CONNECTING"}
    /\ ACTIVE_WS = 2
    /\ cl[1].ws = 2 /\ cl[2].ws = 2
    /\ First.k = "call" /\ First.type = "connect"

\* C3: the missed count of a running heartbeat is the number of heartbeat frames
\* sent since the heartbeat started or the last acknowledgment arrived; a tick of
\* an instance whose transport is OPEN sends one heartbeat frame; the heartbeat
\* closes the transport at the tick that brings the count to maxMissedPongs and
\* at no other; an acknowledgment leaves the count at 0.
HeartbeatSent(i) ==
    \E e \in Trace : e.k = "send" /\ e.type = "heartbeat" /\ e.from = i
HeartbeatClosed(i) ==
    \E e \in Trace : e.k = "close" /\ e.type = "heartbeat" /\ e.from = i
C3_Heartbeat ==
    \A i \in Clients :
        /\ cl[i].heartbeatInterval => cl[i].missedPongs = gh.unacked[i]
        /\ (First.k = "timer" /\ First.type = "heartbeat" /\ First.from = i) =>
              /\ (IsOpen(World, cl[i].ws) \/ HeartbeatClosed(i)) => HeartbeatSent(i)
              /\ HeartbeatClosed(i) <=>
                     (HeartbeatSent(i) /\ gh.unacked[i] = maxMissedPongs)
        /\ Handled(i, "heartbeat") => cl[i].missedPongs = 0 /\ gh.unacked[i] = 0
        /\ (\E e \in Trace : e.k = "close" /\ e.type = "heartbeat") =>
              First.k = "timer" /\ First.type = "heartbeat"

\* C4: when the close event of an instance's transport is delivered, and the
\* transport was not closed by closeSocket() and the host's last word to the
\* instance was not a teardown (so also when startSession() has been called
\* since an earlier disconnect()), the instance has exactly one reconnect timer
\* pending afterwards.
UnexpectedClose(i) ==
    /\ First.k = "event" /\ First.type \in {"drop", "close"}
    /\ cl[i].ws = First.s
    /\ sk[First.s].closer # "closeSocket"
    /\ ~gh.explicit[i]
C4_ReconnectScheduled ==
    \A i \in Clients :
        UnexpectedClose(i) =>
            cl[i].reconnectTimer = "live" /\ cl[i].orphanTimers = 0

\* C5: while the host's last word to an instance is disconnect() or
\* closeSocket(), the instance has no reconnect timer pending and no reconnect
\* attempt of its own on the way to constructing a transport.
ReconnectPending(i) ==
    \/ cl[i].reconnectTimer = "live"
    \/ cl[i].orphanTimers > 0
    \/ \E c \in Calls : /\ calls[c].inst = i /\ calls[c].kind = "reconnect"
                        /\ calls[c].pc = "createWS"
C5_NoReconnectAfterTeardown ==
    \A i \in Clients : gh.explicit[i] => ~ReconnectPending(i)

\* C6: an instance has started its heartbeat once, and emitted 'ready' once,
\* for every open event delivered to it.
C6_OncePerOpen ==
    \A i \in Clients :
        /\ gh.hbStarts[i] = gh.opens[i]
        /\ gh.readies[i] = gh.opens[i]

\* C7: the handlers of an instance are registered on at most one transport.
HandlerSockets(i) ==
    {s \in Sockets : \/ \E h \in Range(sk[s].lsn) : h.inst = i
                     \/ i \in Range(sk[s].msg)}
C7_OneTransport ==
    \A i \in Clients : Cardinality(HandlerSockets(i)) <= 1

\* C8: the samples pushed so far are, in the order of their pushes, the ones
\* handed to the transport followed by the ones still buffered (none lost,
\* none sent twice); every audio frame carries PcmChunkSize samples; and once a
\* start_audio frame has been handled by an instance whose transport is OPEN,
\* less than one chunk is left in its buffer.
Pushed(i) == [k \in 1..gh.nPushed[i] |-> k]
C9_GatedAudio ==
    \A e \in Trace :
        e.type = "audio" =>
            /\ e.k = "send"
            /\ gh.gate[e.from]
            /\ First.type \in {"drain", "pushPCM16", "start_audio"}

\* The drain tick has just sent a chunk.
C9_Witness ==
    /\ First.k = "timer" /\ First.type = "drain"
    /\ Len(AudioOf(out, 1)) = 1
    /\ gh.gate[1]

\* C10: a start_audio frame handled while the session payload has not been sent
\* leaves the gate closed and mic-open false, and sends no audio.
C10_GateNeedsSession ==
    \A i \in Clients :
        (Handled(i, "start_audio") /\ ~cl[i].isMsgSended) =>
            /\ ~cl[i].canSendAudio
            /\ ~cl[i].micOpen
            /\ AudioOf(out, i) = <<>>

\* C11: when stopPrebuffering() has returned, the float buffer and the PCM16
\* buffer of the instance are empty and its gate is closed.
C11_BuffersEmptied ==
    \A i \in Clients :
        (First.k = "call" /\ First.type = "stopPrebuffering" /\ First.from = i) =>
            /\ cl[i].rolling = <<>>
            /\ cl[i].rollingPCM16 = <<>>
            /\ ~cl[i].canSendAudio

\* C13: in a session whose payload was sent on the OPEN transport, exactly
\* pcmChunkSize pushed samples leave as exactly one binary frame, after the
\* mic-open {open:true} event.  Pushed before start_audio: the frame is sent
\* in the step that handles start_audio, after that step's mic-open event.
\* Pushed after start_audio: the frame is sent by the push, the mic being open.
SessionOn(i) == cl[i].isMsgSended /\ IsOpen(World, cl[i].ws)
OneFrame(trace, i, samples) ==
    /\ AudioOf(trace, i) = <<samples>>
    /\ \A k \in DOMAIN trace : trace[k].type = "audio" => trace[k].k = "send"
MicOpenFirst(trace, i) ==
    \E j, k \in DOMAIN trace :
        /\ j < k
        /\ trace[j] = Entry("emit", i, 0, "mic-open", <<TRUE>>)
        /\ trace[k].k = "send" /\ trace[k].type = "audio"
PushedBefore(i) ==
    /\ SessionOn(i)
    /\ Len(cl[i].rollingPCM16) = PcmChunkSize
    /\ out'[1] = Entry("event", 0, cl[i].ws, "start_audio", <<Fr("start_audio")>>)
    /\ Handled(i, "start_audio")'
PushedAfter(i) ==
    /\ SessionOn(i)
    /\ cl[i].canSendAudio
    /\ cl[i].rollingPCM16 = <<>>
    /\ out'[1] = Entry("call", i, 0, "pushPCM16", <<>>)
    /\ gh'.nPushed[i] = gh.nPushed[i] + PcmChunkSize
C13_Step ==
    \A i \in Clients :
        /\ PushedBefore(i) =>
               OneFrame(out', i, cl[i].rollingPCM16) /\ MicOpenFirst(out', i)
        /\ PushedAfter(i) =>
               /\ OneFrame(out', i, [k \in 1..PcmChunkSize |-> gh.nPushed[i] + k])
               /\ cl[i].micOpen /\ gh.gate[i]
C13_EndToEnd == [][C13_Step]_vars

\* A push of one chunk in an open session has just been sent as one frame.
C13_Witness ==
    /\ First = Entry("call", 1, 0, "pushPCM16", <<>>)
    /\ cl[1].isMsgSended /\ cl[1].micOpen /\ gh.gate[1]
    /\ Len(AudioOf(out, 1)) = 1
    /\ Len(AudioOf(out, 1)[1]) = PcmChunkSize
    /\ \E e \in Trace : e.k = "send" /\ e.type = "audio"

\* C14: a startSession() call made while mic-connecting is true sends exactly
\* one disconnect frame and no session-start payload, emits mic-connecting
\* {connecting:false}, and leaves mic-connecting false, the sent flag false
\* and capture stopped.
Sends(trace, i, type) ==
    Cardinality({k \in DOMAIN trace :
        trace[k].k = "send" /\ trace[k].from = i /\ trace[k].type = type})
C14_Step ==
    \A i \in Clients :
        (cl[i].micConnecting /\ out'[1] = Entry("call", i, 0, "startSession", <<>>)) =>
            /\ Sends(out', i, "disconnect") = 1
            /\ Sends(out', i, "start") = 0
            /\ \E k \in DOMAIN out' :
                   out'[k] = Entry("emit", i, 0, "mic-connecting", <<FALSE>>)
            /\ ~cl'[i].micConnecting
            /\ ~cl'[i].isMsgSended
            /\ ~cl'[i].isRecording /\ ~cl'[i].sendInterval
C14_CancelMidConnect == [][C14_Step]_vars

\* C15: a startSession() call made while the mic is open sends one disconnect
\* frame if the transport is OPEN and no session-start payload, and leaves
\* mic-open false, the gate closed, the sent flag false, and capture and the
\* drain timer stopped.
StartSessionCall(i) ==
    out'[1] \in {Entry("call", i, 0, "startSession", <<>>),
                 Entry("call", i, 0, "toggle", <<>>)}
C15_Step ==
    \A i \in Clients :
        (cl[i].micOpen /\ StartSessionCall(i)) =>
            /\ IsOpen(World, cl[i].ws) => Sends(out', i, "disconnect") = 1
            /\ Sends(out', i, "start") = 0
            /\ ~cl'[i].micOpen
            /\ ~cl'[i].canSendAudio
            /\ ~cl'[i].isMsgSended
            /\ ~cl'[i].isRecording /\ ~cl'[i].sendInterval
C15_ToggleOff == [][C15_Step]_vars

\* C19: the step that handles a stop_audio frame publishes amplitude 0, stops
\* capture and the drain timer, sets mic-open false and closes the gate, and
\* changes neither the sent flag nor the transcription nor the transport; from
\* then on the instance
\* sends no audio frame until a start_audio frame is handled.
C19_Step ==
    \A i \in Clients :
        /\ Handled(i, "stop_audio")' =>
            /\ cl'[i].amplitude = 0
            /\ \E k \in DOMAIN out' : out'[k] = Entry("emit", i, 0, "amplitude", <<0>>)
            /\ ~cl'[i].isRecording /\ ~cl'[i].sendInterval
            /\ ~cl'[i].micOpen /\ ~cl'[i].canSendAudio
            /\ ~gh'.gate[i]
            /\ cl'[i].isMsgSended = cl[i].isMsgSended
            /\ cl'[i].transcription = cl[i].transcription
            /\ cl'[i].ws = cl[i].ws /\ sk' = sk /\ ACTIVE_WS' = ACTIVE_WS
            /\ \A k \in DOMAIN out' : out'[k].k \notin {"send", "dropped", "close"}
        /\ ~gh'.gate[i] => AudioOf(out', i) = <<>>
        /\ gh'.gate[i] /\ ~gh.gate[i] => Handled(i, "start_audio")'
C19_StopAudio == [][C19_Step]_vars

\* A stop_audio frame has just been handled in a session that had sent audio.
C19_Witness ==
    /\ First.type = "stop_audio" /\ Handled(1, "stop_audio")
    /\ cl[1].isMsgSended
    /\ gh.sentAudio[1] # <<>>
    /\ ~gh.gate[1] /\ ~cl[1].canSendAudio

\* C12: for a streaming_data frame handled while the sent flag is true, with
\* previous_transcription P and the tokens t1..tk (k >= 1) of new_transcription,
\* the texts published for it are P, P t1, ..., P t1 .. tk in this order, the
\* first without delta and each of the others with its token as delta, and
\* when no timer of the replay is pending any more all k + 1 have been
\* published.  C12_Replay adds what the claim says of the rest: every text is
\* P followed by a space and the tokens, and any two consecutive publications
\* are at least the pacing interval apart.  C12_Paced adds what the code does:
\* the tokens are joined to P by single spaces, with no space in front when P
\* is empty; P and P t1 are published at the same instant; each later one is
\* at least the pacing interval after the one before.
RECURSIVE tokensFrom(_, _)
tokensFrom(str, cur) ==
    LET piece == IF cur = <<>> THEN <<>> ELSE <<cur>> IN
    IF str = <<>> THEN piece
    ELSE IF Head(str) = " " THEN piece \o tokensFrom(Tail(str), <<>>)
    ELSE tokensFrom(Tail(str), Append(cur, Head(str)))
Tokens(str) == tokensFrom(str, <<>>)
RECURSIVE Joined(_, _, _)
Joined(P, toks, n) ==
    IF n = 0 THEN P ELSE Joined(P, toks, n - 1) \o <<" ">> \o toks[n]
PubsOf(r) == SelectSeq(gh.pubs, LAMBDA p : p.inst = r.inst /\ p.rep = r.id)
ReplayPending(r) ==
    \E k \in DOMAIN cl[r.inst].wordTimers : cl[r.inst].wordTimers[k].rep = r.id
C12_Replay ==
    \A x \in DOMAIN gh.replays :
        LET r == gh.replays[x]
            toks == Tokens(r.next)
            ps == PubsOf(r)
        IN (r.sent /\ Len(toks) >= 1) =>
            /\ Len(ps) <= Len(toks) + 1
            /\ \A n \in DOMAIN ps :
                   /\ ps[n].text = Joined(r.previous, toks, n - 1)
                   /\ ps[n].delta = IF n = 1 THEN <<>> ELSE <<toks[n - 1]>>
            /\ \A n \in 2..Len(ps) : ps[n].at - ps[n - 1].at >= PacingMs
            /\ ~ReplayPending(r) => Len(ps) = Len(toks) + 1

RECURSIVE Spaced(_, _, _)
Spaced(P, toks, n) ==
    IF n = 0 THEN P
    ELSE LET before == Spaced(P, toks, n - 1)
         IN IF before = <<>> THEN toks[n] ELSE before \o <<" ">> \o toks[n]
C12_Paced ==
    \A x \in DOMAIN gh.replays :
        LET r == gh.replays[x]
            toks == Tokens(r.next)
            ps == PubsOf(r)
        IN (r.sent /\ Len(toks) >= 1) =>
            /\ Len(ps) >= 2 /\ Len(ps) <= Len(toks) + 1
            /\ \A n \in DOMAIN ps :
                   /\ ps[n].text = Spaced(r.previous, toks, n - 1)
                   /\ ps[n].delta = IF n = 1 THEN <<>> ELSE <<toks[n - 1]>>
            /\ ps[2].at = ps[1].at
            /\ \A q \in 3..Len(ps) : ps[q].at - ps[q - 1].at >= PacingMs
            /\ ~ReplayPending(r) => Len(ps) = Len(toks) + 1

\* The replay of a frame with two tokens has published its three texts and its
\* last timer has fired.
C12_Witness ==
    \E x \in DOMAIN gh.replays :
        LET r == gh.replays[x]
            ps == PubsOf(r)
        IN /\ r.sent /\ Len(Tokens(r.next)) = 2
           /\ ~ReplayPending(r)
           /\ Len(ps) = 3
           /\ ps[3].at - ps[2].at >= PacingMs
           /\ cl[r.inst].transcription = ps[3].text

\* C16: the step in which startSession() gets through its new-session branch
\* (it publishes the reset transcription) writes a request identifier that
\* differs from the one before, leaves the transcription empty, sends exactly
\* one session-start payload, on an OPEN transport, equal to rattAgentDetails
\* with the new identifier as requestId, and leaves the sent flag and
\* mic-connecting true.
SessionBegun(trace, i) ==
    \E k \in DOMAIN trace :
        /\ trace[k].k = "emit" /\ trace[k].from = i /\ trace[k].type = "transcription"
        /\ trace[k].data[1] = <<>> /\ trace[k].data[3] = 0
C16_Step ==
    \A i \in Clients :
        SessionBegun(out', i) =>
            /\ cl'[i].requestId # cl[i].requestId
            /\ cl'[i].transcription = <<>>
            /\ Sends(out', i, "start") = 1
            /\ \A k \in DOMAIN out' :
                   out'[k].type = "start" =>
                       /\ out'[k].k = "send"
                       /\ out'[k].data =
                              <<[rattAgentDetails EXCEPT !.requestId = cl'[i].requestId]>>
            /\ cl'[i].isMsgSended
            /\ cl'[i].micConnecting
C16_NewSession == [][C16_Step]_vars

\* C17: the step that handles an error frame leaves the session torn down
\* (sent flag, mic-connecting and mic-open false, gate closed, capture and
\* drain timer stopped, amplitude 0), emits exactly one error event, carrying
\* the frame's error value, closes no transport and arms no reconnect timer.
\* C17_AnyError says it of every error value, C17_ErrorFrame of the values
\* that JavaScript takes as true.
ErrorHandled(trace, i, v) ==
    \E k \in DOMAIN trace :
        /\ trace[k].k = "emit" /\ trace[k].from = i /\ trace[k].type = "socket-message"
        /\ trace[k].data[1] = ErrorFrame(v)
TornDown(c) ==
    /\ ~c.isMsgSended /\ ~c.micConnecting /\ ~c.micOpen
    /\ ~c.canSendAudio /\ ~c.isRecording /\ ~c.sendInterval
    /\ c.amplitude = 0
C17_Effect(i, v) ==
    /\ TornDown(cl'[i])
    /\ Cardinality({k \in DOMAIN out' :
           out'[k].k = "emit" /\ out'[k].from = i /\ out'[k].type = "error"}) = 1
    /\ \E k \in DOMAIN out' : out'[k] = Entry("emit", i, 0, "error", <<v>>)
    /\ \A k \in DOMAIN out' : out'[k].k # "close"
    /\ sk' = sk /\ ACTIVE_WS' = ACTIVE_WS /\ cl'[i].ws = cl[i].ws
    /\ cl'[i].reconnectTimer = cl[i].reconnectTimer
    /\ cl'[i].orphanTimers = cl[i].orphanTimers
C17_AnyStep ==
    \A i \in Clients : \A v \in {<<>>, <<"e">>} :
        ErrorHandled(out', i, v) => C17_Effect(i, v)
C17_AnyError == [][C17_AnyStep]_vars
C17_TrueStep ==
    \A i \in Clients : \A v \in {<<"e">>} :
        ErrorHandled(out', i, v) => C17_Effect(i, v)
C17_ErrorFrame == [][C17_TrueStep]_vars

\* An error frame with a true value has just torn down a session that had
\* been started on the OPEN transport.
C17_Witness ==
    /\ First.type = "error" /\ Handled(1, "error")
    /\ \E e \in Trace : e = Entry("emit", 1, 0, "error", <<<<"e">>>>)
    /\ cl[1].requestId # <<"host", 0>>
    /\ IsOpen(World, cl[1].ws)
    /\ TornDown(cl[1])

\* C18: the step that handles a disconnect frame leaves the session torn
\* down and, after the teardown, calls the host's onSend once if the
\* transcription is not empty after trimming, and not at all if it is.
OnSendCalls(trace, i) ==
    {k \in DOMAIN trace : trace[k] = Entry("callback", i, 0, "onSend", <<>>)}
C18_Step ==
    \A i \in Clients :
        Handled(i, "disconnect")' =>
            /\ TornDown(cl'[i])
            /\ cl'[i].transcription = cl[i].transcription
            /\ Cardinality(OnSendCalls(out', i)) =
                   IF Tokens(cl[i].transcription) # <<>> THEN 1 ELSE 0
            /\ \A k \in OnSendCalls(out', i) :
                   \E j \in 1..(k - 1) : out'[j] = Entry("emit", i, 0, "amplitude", <<0>>)
C18_DisconnectFrame == [][C18_Step]_vars

\* A disconnect frame has just ended a session that had a transcription: the
\* host's onSend was called.
C18_Witness ==
    /\ First.type = "disconnect" /\ Handled(1, "disconnect")
    /\ cl[1].requestId # <<"host", 0>>
    /\ Tokens(cl[1].transcription) # <<>>
    /\ OnSendCalls(out, 1) # {}
    /\ TornDown(cl[1])

\* C20: in the step that delivers a message to a transport, every instance
\* listening on it emits exactly one socket-message event, carrying the
\* message, before anything else it does in the step; for a message that is
\* not JSON the event carries no parsed value, and the step changes no field
\* of an instance, no transport, no call in flight and nothing of the shared
\* connection state.
Delivered == out'[1].k = "event" /\ out'[1].data # <<>>
Listening(i) == i \in Range(sk[out'[1].s].msg)
OfInstance(trace, i) == SelectSeq(trace, LAMBDA e : e.from = i)
SocketMessages(trace, i) ==
    SelectSeq(trace, LAMBDA e : e.from = i /\ e.k = "emit" /\ e.type = "socket-message")
C20_Step ==
    Delivered =>
        LET raw == out'[1].data[1] IN
        /\ \A i \in Clients :
            Listening(i) =>
                /\ Len(SocketMessages(out', i)) = 1
                /\ OfInstance(out', i)[1] = SocketMessages(out', i)[1]
                /\ SocketMessages(out', i)[1].data[1] = raw
                /\ raw.kind = "nonjson" => SocketMessages(out', i)[1].data[2] = <<>>
                /\ raw.kind # "nonjson" => SocketMessages(out', i)[1].data[2] = <<raw>>
        /\ raw.kind = "nonjson" =>
                /\ cl' = cl /\ sk' = sk /\ calls' = calls
                /\ ACTIVE_WS' = ACTIVE_WS /\ CONNECT_PROMISE' = CONNECT_PROMISE
                /\ \A k \in 2..Len(out') : out'[k].type = "socket-message"
C20_SocketMessage == [][C20_Step]_vars

\* A message that is not JSON has just been delivered in a session whose mic
\* is open: its event carries no parsed value and the session goes on.
C20_Witness ==
    /\ First.k = "event" /\ First.type = "nonjson"
    /\ Len(out) = 2
    /\ out[2] = Entry("emit", 1, 0, "socket-message", <<Fr("nonjson"), <<>>>>)
    /\ cl[1].isMsgSended /\ cl[1].micOpen /\ cl[1].canSendAudio

\* C21: the step in which startSession() catches the failure of its request
\* for the microphone or of its connect() sends no session-start payload,
\* leaves the sent flag and mic-connecting false, emits mic-connecting
\* {connecting:false}, reports one error (the microphone-blocked report and
\* toast for NotAllowedError, the generic report and toast otherwise), and
\* closes no transport.
Caught(i) ==
    /\ out'[1].k = "resume" /\ out'[1].from = i
    /\ \/ out'[1].type = "sessCatch"
       \/ out'[1].type = "probe" /\ out'[1].data[1] # "ok"
Thrown == IF out'[1].type = "probe" THEN out'[1].data[1] ELSE "Error"
ErrorsOf(trace, i) ==
    SelectSeq(trace, LAMBDA e : e.from = i /\ e.k = "emit" /\ e.type = "error")
ToastsOf(trace, i) ==
    SelectSeq(trace, LAMBDA e : e.from = i /\ e.k = "callback" /\ e.type = "showToast")
C21_Step ==
    \A i \in Clients :
        Caught(i) =>
            /\ \A k \in DOMAIN out' : out'[k].type # "start"
            /\ ~cl'[i].isMsgSended
            /\ ~cl'[i].micConnecting
            /\ out'[Len(out')] = Entry("emit", i, 0, "mic-connecting", <<FALSE>>)
            /\ Len(ErrorsOf(out', i)) = 1 /\ Len(ToastsOf(out', i)) = 1
            /\ IF Thrown = "NotAllowedError"
               THEN /\ ErrorsOf(out', i)[1].data = <<"Microphone access is blocked">>
                    /\ ToastsOf(out', i)[1].data = <<"Mic Disabled">>
               ELSE /\ ErrorsOf(out', i)[1].data = <<Thrown>>
                    /\ ToastsOf(out', i)[1].data = <<"Error">>
            /\ \A k \in DOMAIN out' : out'[k].k # "close"
            /\ sk' = sk /\ ACTIVE_WS' = ACTIVE_WS /\ cl'[i].ws = cl[i].ws
C21_StartFails == [][C21_Step]_vars

\* The microphone was refused while the transport is OPEN: the attempt is
\* over, the refusal is reported as such and the transport is still OPEN.
C21_Witness ==
    /\ First.k = "resume" /\ First.type = "probe" /\ First.data[1] = "NotAllowedError"
    /\ \E e \in Trace : e = Entry("emit", 1, 0, "error", <<"Microphone access is blocked">>)
    /\ ~cl[1].micConnecting /\ ~cl[1].isMsgSended
    /\ IsOpen(World, cl[1].ws)

\* C22: a disconnect() or stopAudio() call sends one disconnect frame if the
\* instance's transport is OPEN and none if it is not, leaves the session torn
\* down, and calls close() on nothing: the transports, the shared handle and
\* the instance's transport reference are after the call what they were before.
EndCall(i) ==
    out'[1] \in {Entry("call", i, 0, "disconnect", <<>>),
                 Entry("call", i, 0, "stopAudio", <<>>)}
C22_Step ==
    \A i \in Clients :
        EndCall(i) =>
            /\ Sends(out', i, "disconnect") = IF IsOpen(World, cl[i].ws) THEN 1 ELSE 0
            /\ \A k \in DOMAIN out' :
                   out'[k].k \in {"send", "dropped"} =>
                       out'[k].k = "send" /\ out'[k].type = "disconnect"
            /\ TornDown(cl'[i])
            /\ \A k \in DOMAIN out' : out'[k].k # "close"
            /\ sk' = sk /\ ACTIVE_WS' = ACTIVE_WS /\ cl'[i].ws = cl[i].ws
C22_Disconnect == [][C22_Step]_vars

\* stopAudio() has just ended a session whose mic was open on the OPEN
\* transport: one disconnect frame, and the transport is still OPEN and shared.
C22_Witness ==
    /\ First = Entry("call", 1, 0, "stopAudio", <<>>)
    /\ Sends(out, 1, "disconnect") = 1
    /\ gh.sentAudio[1] # <<>>
    /\ TornDown(cl[1])
    /\ IsOpen(World, cl[1].ws) /\ ACTIVE_WS = cl[1].ws

\* C23: when closeSocket() has returned, close() has been called on the
\* transport the instance held, none of the instance's handlers is registered
\* on it, the instance holds no transport, and the shared handle is empty if
\* it pointed to that transport; and no later event of that transport changes
\* the state of the instance.  C23_NoLaterEffect counts the calls of the
\* instance that are in flight as part of its state, C23_Detached its fields
\* only.
CloseSocketCall(i) == out'[1] = Entry("call", i, 0, "closeSocket", <<>>)
Registered(i, s) ==
    \/ \E h \in Range(sk'[s].lsn) : h.inst = i
    \/ i \in Range(sk'[s].msg)
C23_Returned(i) ==
    LET s == cl[i].ws IN
    /\ cl'[i].ws = 0
    /\ s # 0 =>
          /\ sk'[s].state \in {"CLOSING", "CLOSED"}
          /\ sk[s].state \in {"OPEN", "CONNECTING"} =>
                 \E k \in DOMAIN out' : out'[k] = Entry("close", i, s, "closeSocket", <<>>)
          /\ ~Registered(i, s)
          /\ ACTIVE_WS = s => ACTIVE_WS' = 0
LaterEvent(i) == out'[1].k = "event" /\ out'[1].s \in gh.shut[i]
CallsOf(i, cs) == {c \in Calls : cs[c].inst = i}
C23_FieldsStep ==
    \A i \in Clients :
        /\ CloseSocketCall(i) => C23_Returned(i)
        /\ LaterEvent(i) =>
               /\ cl'[i] = cl[i]
               /\ \A k \in DOMAIN out' : out'[k].from # i
C23_AllStep ==
    \A i \in Clients :
        /\ CloseSocketCall(i) => C23_Returned(i)
        /\ LaterEvent(i) =>
               /\ cl'[i] = cl[i]
               /\ \A k \in DOMAIN out' : out'[k].from # i
               /\ \A c \in CallsOf(i, calls) : calls'[c] = calls[c]
C23_NoLaterEffect == [][C23_AllStep]_vars
C23_Detached == [][C23_FieldsStep]_vars

\* The close event of a transport that instance 1 had its handlers on and
\* called closeSocket() on has just been delivered: instance 2, which shares
\* the transport, handled it and instance 1 did nothing.
C23_Witness ==
    /\ First.k = "event" /\ First.type = "close"
    /\ sk[First.s].closer = "closeSocket"
    /\ cl[1].handlerSocket = First.s /\ cl[1].ws = 0 /\ cl[1].cleanedUp
    /\ \A e \in Trace : e.from # 1
    /\ \E e \in Trace : e.from = 2 /\ e.k = "handler"

\* C24: an instance that has handled the open event of its transport has its
\* heartbeat timer armed, and an armed heartbeat timer is never that of a
\* transport that has closed.
C24_HeartbeatStops ==
    \A i \in Clients :
        /\ (First.k = "event" /\ First.type = "open"
              /\ \E e \in Trace : e.k = "handler" /\ e.from = i) =>
               cl[i].heartbeatInterval /\ gh.hbFor[i] = First.s
        /\ cl[i].heartbeatInterval =>
               gh.hbFor[i] # 0 /\ sk[gh.hbFor[i]].state # "CLOSED"

\* C25: a local teardown (disconnect(), teardown(), stopPrebuffering(), an
\* error or disconnect frame, a close event the instance did not ask for)
\* leaves capture stopped, no drain timer armed and the gate closed; from such
\* a state only beginPrebuffering(), startMic() or a start_audio frame, or the
\* completion of a capture start made since the last teardown, leads out of
\* it (so the completion of a capture start that was in flight when the
\* teardown ran does not); and a teardown repeated at once changes nothing.
Quiet(c) == ~c.isRecording /\ ~c.recNode /\ ~c.sendInterval /\ ~c.canSendAudio
TornBy(i) ==
    \/ out'[1].k = "call" /\ out'[1].from = i
          /\ out'[1].type \in {"disconnect", "teardown", "stopPrebuffering"}
    \/ Handled(i, "disconnect")'
    \/ ErrorHandled(out', i, <<"e">>)
    \/ /\ ~cl[i].cleanedUp
       /\ \E k \in DOMAIN out' : out'[k] = Entry("handler", i, out'[1].s, "close", <<>>)
CaptureDone(i) == out'[1].k = "resume" /\ out'[1].type = "micWait" /\ out'[1].from = i
Starts(i) ==
    \/ out'[1].k = "call" /\ out'[1].from = i
          /\ out'[1].type \in {"beginPrebuffering", "startMic"}
    \/ Handled(i, "start_audio")'
    \/ CaptureDone(i) /\ out'[1].data[2] \notin gh.stale
Repeated(i) ==
    /\ out # <<>> /\ out'[1] = out[1] /\ Len(out') = Len(out)
    /\ out'[1].k = "call" /\ out'[1].from = i
    /\ out'[1].type \in {"disconnect", "teardown", "stopPrebuffering"}
C25_Step ==
    \A i \in Clients :
        /\ TornBy(i) => Quiet(cl'[i])
        /\ (Quiet(cl[i]) /\ ~Starts(i)) => Quiet(cl'[i])
        /\ Repeated(i) =>
               /\ cl' = cl /\ sk' = sk /\ calls' = calls
               /\ ACTIVE_WS' = ACTIVE_WS /\ CONNECT_PROMISE' = CONNECT_PROMISE
C25_TeardownHolds == [][C25_Step]_vars

\* C26: on a transport that has not closed, at most one instance has a
\* session-start payload outstanding (sent, and the session not torn down
\* since).  C26_ToggleEnds is the second half of the claim: a startSession()
\* call made while the instance's session is live or being started sends no
\* session-start payload and leaves the instance with no session.
Outstanding(s) == {i \in Clients : gh.live[i] = s}
C26_OneSession ==
    \A s \in Sockets :
        sk[s].state \in {"OPEN", "CLOSING"} => Cardinality(Outstanding(s)) <= 1
C26_Toggle ==
    \A i \in Clients :
        (StartSessionCall(i) /\ (gh.live[i] # 0 \/ cl[i].micConnecting)) =>
            /\ Sends(out', i, "start") = 0
            /\ ~cl'[i].isMsgSended
C26_ToggleEnds == [][C26_Toggle]_vars

\* C27: when the close event of an instance's transport has been delivered,
\* mic-connecting, mic-open and the sent flag of the instance are false and
\* its gate is closed.
ClosedUnder(i) ==
    /\ First.k = "event" /\ First.type \in {"close", "drop"}
    /\ cl[i].made /\ cl[i].ws = First.s
C27_CloseTearsDown ==
    \A i \in Clients :
        ClosedUnder(i) =>
            /\ ~cl[i].micConnecting
            /\ ~cl[i].micOpen
            /\ ~cl[i].isMsgSended
            /\ ~cl[i].canSendAudio

\* C28: every audio frame handed to a transport carries exactly PcmChunkSize
\* samples, whether it comes from the PCM16 buffer or from the float buffer,
\* from the drain tick or from the flush.
AudioFrames == {e \in Trace : e.type \in {"audio", "audioFloat"}}
C28_WholeChunks ==
    \A e \in AudioFrames : e.k = "send" /\ Len(e.data) = PcmChunkSize

\* C29: each rolling buffer grows only at its end, by the samples pushed or
\* captured, and shrinks only at its front, by the frames handed to the
\* transport in the same step (stopPrebuffering() alone discards the float
\* buffer); so the frames sent from a buffer followed by its content are the
\* samples appended to it, in order.
Captured(i) == [k \in 1..gh.nCaptured[i] |-> FloatSample(k)]

RECURSIVE SentIn(_, _, _)
SentIn(trace, i, type) ==
    IF trace = <<>> THEN <<>>
    ELSE LET e == Head(trace)
         IN (IF e.k = "send" /\ e.from = i /\ e.type = type THEN e.data ELSE <<>>)
                \o SentIn(Tail(trace), i, type)

Rest(buf, n) == SubSeq(buf, n + 1, Len(buf))

C29_Kept ==
    \A i \in Clients :
        LET n == gh.nCaptured[i]
            m == Len(cl[i].rolling)
        IN /\ gh.sentAudio[i] \o cl[i].rollingPCM16 = Pushed(i)
           /\ m <= n
           /\ cl[i].rolling = SubSeq(Captured(i), n - m + 1, n)
           /\ Len(gh.sentFloat[i]) + gh.lostFloat[i] + m = n
           /\ gh.lostFloat[i] = 0 =>
                 gh.sentFloat[i] \o floatTo16BitPCM(cl[i].rolling)
                     = floatTo16BitPCM(Captured(i))

C29_Step ==
    \A i \in Clients :
        LET view == SubSeq(Pushed(i)', gh.nPushed[i] + 1, gh.nPushed'[i])
            chunk == SubSeq(Captured(i)', gh.nCaptured[i] + 1, gh.nCaptured'[i])
            pcm == cl[i].rollingPCM16 \o view
            float == cl[i].rolling \o chunk
            sent16 == SentIn(out', i, "audio")
            sentF == SentIn(out', i, "audioFloat")
        IN /\ view # <<>> => out'[1].k = "call" /\ out'[1].type = "pushPCM16"
           /\ chunk # <<>> => out'[1].k = "capture"
           /\ Len(sent16) <= Len(pcm)
           /\ sent16 = SubSeq(pcm, 1, Len(sent16))
           /\ cl'[i].rollingPCM16 = Rest(pcm, Len(sent16))
           /\ Len(sentF) <= Len(float)
           /\ sentF = floatTo16BitPCM(SubSeq(float, 1, Len(sentF)))
           /\ IF out'[1].k = "call" /\ out'[1].from = i
                    /\ out'[1].type = "stopPrebuffering"
              THEN sentF = <<>> /\ cl'[i].rolling = <<>>
              ELSE cl'[i].rolling = Rest(float, Len(sentF))

C29_Conservation == []C29_Kept /\ [][C29_Step]_vars

\* Frames have left from both buffers, both still hold samples, and nothing
\* was discarded.
C29_Witness ==
    /\ gh.sentAudio[1] # <<>> /\ cl[1].rollingPCM16 # <<>>
    /\ gh.sentFloat[1] # <<>> /\ cl[1].rolling # <<>>
    /\ gh.lostFloat[1] = 0
    /\ \E k \in DOMAIN gh.sentFloat[1] : gh.sentFloat[1][k] \notin {-1, 0, 1}

\* C30: a {transcription: T} frame with non-empty T received while the sent
\* flag is true replaces the transcription by T in that step and publishes
\* exactly one transcription event, with text T and no delta; received while
\* the sent flag is false it changes nothing of the instance and publishes no
\* transcription event.
Listens(i, s) == \E k \in DOMAIN sk[s].msg : sk[s].msg[k] = i

TranscriptionsOf(trace, i) ==
    SelectSeq(trace, LAMBDA e : e.k = "emit" /\ e.from = i /\ e.type = "transcription")

C30_Step ==
    LET first == out'[1]
    IN first.k = "event" /\ first.type = "transcription" /\ first.data[1].a # <<>> =>
         \A i \in Clients :
            LET T == first.data[1].a
                pubs == TranscriptionsOf(out', i)
            IN Listens(i, first.s) =>
                 IF cl[i].isMsgSended
                 THEN /\ cl'[i] = [cl[i] EXCEPT !.transcription = T, !.userText = T]
                      /\ Len(pubs) = 1
                      /\ pubs[1].data[1] = T
                      /\ pubs[1].data[2] = <<>>
                 ELSE /\ cl'[i] = cl[i]
                      /\ pubs = <<>>

C30_Transcription == [][C30_Step]_vars

\* A transcription frame has just been taken during a session.
C30_Witness ==
    /\ out # <<>>
    /\ out[1].k = "event" /\ out[1].type = "transcription"
    /\ out[1].data[1].a # <<>>
    /\ cl[1].isMsgSended
    /\ cl[1].transcription = out[1].data[1].a
    /\ TranscriptionsOf(out, 1) # <<>>

\* C31: the VAD processor posts voice_stop only after at least
\* minSpeechFrames speech-positive frames since the segment's voice_start and
\* redemptionFrames speech-negative frames one after the other since the last
\* speech-positive frame.
Posts(trace, i) == SelectSeq(trace, LAMBDA e : e.k = "post" /\ e.from = i)
StopPosted(trace, i) ==
    \E k \in DOMAIN trace :
        trace[k].k = "post" /\ trace[k].from = i /\ trace[k].type = "voice_stop"

C31_VoiceStop ==
    \A i \in Clients :
        StopPosted(out, i) =>
            /\ gh.posSince[i] >= minSpeechFrames
            /\ gh.negRun[i] >= redemptionFrames

\* What holds of the processor: voice_stop is posted only from the speaking
\* state, after minSpeechFrames speech-positive frames of the segment and
\* redemptionFrames speech-negative frames since the last speech-positive one
\* (frames between the thresholds may lie among them); a frame between the
\* thresholds changes nothing and posts nothing; reaching the redemption
\* count resets the state.
C31_RestStep ==
    \A i \in Clients :
        LET first == out'[1]
            energy == first.data[1]
            mid == energy >= negativeSpeechThreshold /\ energy <= positiveSpeechThreshold
            neg == energy < negativeSpeechThreshold
        IN first.k = "frame" /\ first.from = i =>
             /\ StopPosted(out', i) =>
                   /\ cl[i].vad.speaking
                   /\ gh'.posSince[i] >= minSpeechFrames
                   /\ gh'.negSince[i] = redemptionFrames
                   /\ Len(Posts(out', i)) = 1
             /\ first.type = "vad" /\ mid =>
                   cl'[i].vad = cl[i].vad /\ Posts(out', i) = <<>>
             /\ first.type = "none" =>
                   cl'[i].vad = cl[i].vad /\ Posts(out', i) = <<>>
             /\ first.type = "vad" /\ neg /\ cl[i].vad.speaking
                    /\ cl[i].vad.silenceFramesCount + 1 >= redemptionFrames =>
                   cl'[i].vad = NewVad
             /\ cl'[i].vad.silenceFramesCount < redemptionFrames
             /\ cl[i].vad.speaking =>
                   /\ cl[i].vad.silenceFramesCount = gh.negSince[i]
                   /\ cl[i].vad.speechFramesCount = gh.posSince[i]

C31_Rest == [][C31_RestStep]_vars

\* C32: every frame an operation hands to a transport - heartbeat, audio
\* chunk, disconnect frame, session-start payload - is handed to it while it
\* is OPEN (a frame handed to a transport in another state is recorded as
\* dropped).
C32_SendsWhileOpen == \A e \in Trace : e.k # "dropped"

\* C33: once startSession()'s cancel path has run while an earlier
\* startSession() call of the instance was suspended, and until the next
\* startSession() call begins, the sent flag and mic-connecting are false and
\* no session-start payload is sent.
C33_CancelHolds ==
    \A i \in Clients :
        gh.cancelled[i] =>
            /\ ~cl[i].isMsgSended
            /\ ~cl[i].micConnecting
            /\ Sends(out, i, "start") = 0

\* C34: whenever a connect() call of an instance has resolved and the
\* transport the instance holds is OPEN, the instance's close handler and its
\* message handler are registered on that transport.
Observes(i, s) ==
    /\ \E h \in Range(sk[s].lsn) : h.inst = i
    /\ i \in Range(sk[s].msg)
C34_HandlersRegistered ==
    \A i \in Clients :
        (gh.connected[i] /\ cl[i].ws # 0 /\ sk[cl[i].ws].state = "OPEN") =>
            Observes(i, cl[i].ws)

\* C35: once a later streaming_data frame has started its replay, nothing
\* the replay of an earlier frame produces is published: every text a replay
\* publishes belongs to the last streaming_data frame the instance has
\* replayed.
ReplaysOf(i) == SelectSeq(gh.replays, LAMBDA r : r.inst = i /\ r.sent /\ r.next # <<>>)
LastReplay(i) == ReplaysOf(i)[Len(ReplaysOf(i))].id
C35_NoEarlierText ==
    \A e \in Trace :
        (e.k = "emit" /\ e.type = "transcription" /\ e.data[3] # 0) =>
            e.data[3] = LastReplay(e.from)

\* C36: a replay publishes a text only while the session in which its frame
\* was received is still on: the sent flag is true and the request identifier
\* is the one the instance had when the frame arrived.
ReplayOf(i, id) == CHOOSE r \in Range(gh.replays) : r.inst = i /\ r.id = id
C36_WithinSession ==
    \A e \in Trace :
        (e.k = "emit" /\ e.type = "transcription" /\ e.data[3] # 0) =>
            /\ cl[e.from].isMsgSended
            /\ ReplayOf(e.from, e.data[3]).req = cl[e.from].requestId

\* The same for the stored text after a new session has reset it: a replay
\* that publishes belongs to the session that is on.
C36_NoOldText ==
    \A e \in Trace :
        (e.k = "emit" /\ e.type = "transcription" /\ e.data[3] # 0
            /\ cl[e.from].isMsgSended) =>
            ReplayOf(e.from, e.data[3]).req = cl[e.from].requestId

\* C37: no audio frame sent by an instance in a session (its sent flag is
\* set) carries a sample that was pushed before the instance's previous
\* session ended.
C37_NoOldAudio ==
    \A e \in Trace :
        (e.k = "send" /\ e.type = "audio" /\ cl[e.from].isMsgSended) =>
            \A k \in DOMAIN e.data : e.data[k] > gh.mark[e.from]

\* get wsReady(): the _wsReady field, or the instance's transport is OPEN.
wsReady(W, i) == W.cl[i].wsReady \/ IsOpen(W, W.cl[i].ws)

\* C38: the wsReady getter of an instance returns true only when the
\* instance's transport is OPEN.
C38_ReadyMeansOpen ==
    \A i \in Clients : wsReady(World, i) => IsOpen(World, cl[i].ws)

\* ------------------------------------------------------------ reconnection
\* The host never calls disconnect(), stopAudio() or closeSocket(): it calls
\* connect() and startSession().  The server refuses or drops every
\* connection but the last one, and acknowledges the heartbeats in time.  The
\* process starts with its first connection established, or with none.
Unconnected ==
    /\ cl = [i \in Clients |-> [NewClient EXCEPT !.made = (i = 1)]]
    /\ sk = [s \in Sockets |-> NoSocket]
    /\ ACTIVE_WS = 0
    /\ CONNECT_PROMISE = NullPromise
    /\ calls = [c \in CallSlots |-> IdleCall]
    /\ gh = NewGhost

InitLive ==
    /\ Connected \/ Unconnected
    /\ out = <<>>
    /\ ops = LiveOps
    /\ frames = LiveFrames
    /\ now = 0

Refused(s) == s < MaxSockets

NextLive ==
    \/ Connect(1)
    \/ StartSession(1)
    \/ \E c \in Calls : CreateWSDone(c)
    \/ \E c \in Calls : Resume(c)
    \/ ReconnectFire(1)
    \/ \E s \in Sockets : SockOpen(s)
    \/ \E s \in Sockets : Refused(s) /\ SockFail(s)
    \/ \E s \in Sockets : SockClose(s)
    \/ \E s \in Sockets : Refused(s) /\ SockDrop(s)
    \/ \E s \in Sockets : RecvFrame(s, Fr("start_audio"))

\* The event loop is never idle while a timer callback, a socket event or the
\* continuation of a settled promise is due.
EventLoop ==
    \/ \E c \in Calls : CreateWSDone(c)
    \/ \E c \in Calls : Resume(c)
    \/ ReconnectFire(1)
    \/ \E s \in Sockets : SockOpen(s)
    \/ \E s \in Sockets : SockClose(s)

FairLive == WF_vars(EventLoop)

SpecLive == InitLive /\ [][NextLive]_vars /\ FairLive

\* The close event of the instance's transport has just been delivered.
Closed(i) ==
    /\ First.k = "event" /\ First.type \in {"drop", "close"}
    /\ cl[i].ws = First.s
\* The instance holds an OPEN transport and has just emitted 'ready'.
Reopened(i) ==
    /\ IsOpen(World, cl[i].ws)
    /\ \E e \in Trace : e.k = "emit" /\ e.from = i /\ e.type = "ready"
\* startSession() has just found the mic open and run disconnect().
ToggledOff(i) == First.k = "call" /\ First.type = "toggle" /\ First.from = i

Emits(trace, i, type, data) ==
    \E e \in Range(trace) : e.k = "emit" /\ e.from = i /\ e.type = type /\ e.data = data
C40_Inv == \A i \in Clients : ~(cl[i].micOpen /\ cl[i].micConnecting)
C40_Step ==
    \A i \in Clients :
        /\ ((~cl[i].micConnecting /\ cl'[i].micConnecting)
              \/ Emits(out', i, "mic-connecting", <<TRUE>>)) =>
               /\ out'[1] = Entry("call", i, 0, "startSession", <<>>)
               /\ ~cl[i].micOpen
        /\ ((~cl[i].micOpen /\ cl'[i].micOpen)
              \/ Emits(out', i, "mic-open", <<TRUE>>)) =>
               /\ cl'[i].micOpen
               /\ ~cl'[i].micConnecting
C40_MicFlags == []C40_Inv /\ [][C40_Step]_vars

\* A start_audio frame has just opened the mic of a session that was
\* mic-connecting.
C40_Witness ==
    /\ Handled(1, "start_audio")
    /\ Emits(out, 1, "mic-open", <<TRUE>>)
    /\ cl[1].isMsgSended /\ cl[1].micOpen /\ ~cl[1].micConnecting

====
